---- MODULE Spec2Model ----
(***************************************************************************)
(* IoTiX Adam integration: the coordinator's polling cycle                 *)
(* (AdamCoordinator._async_update_data), its button-event dispatch, the    *)
(* command methods and the two commands that live outside the coordinator  *)
(* (XR8RelaySwitch._set_relay_state, AdamOptionsFlow.async_step_device_name)*)
(*                                                                         *)
(* JSON objects are functions from key strings to values; a key that the   *)
(* controller left out is a key outside the function's domain.  Every      *)
(* await of the code is one action; what runs between two awaits runs      *)
(* inside the action that handles the earlier response.                    *)
(***************************************************************************)
EXTENDS Integers, Sequences, FiniteSets, TLC

VARIABLES
    pc,                      \* the request the polling cycle is waiting on, or "idle"
    locals,                  \* the local variables of _async_update_data
    data,                    \* coordinator.data: the published snapshot (None before the first)
    last_update_success,     \* coordinator.last_update_success
    outcome,                 \* how the last call of _async_update_data ended
    button_event_listeners,  \* coordinator._button_event_listeners: pin -> list of callbacks
    registrations,           \* every register_button_event_listener call so far, in call order
    dispatched,              \* this cycle's run of _trigger_button_events: its input and its calls
    recv,                    \* the responses this cycle has received so far
    cmd,                     \* the command being executed, its requests and its result
    refresh_requested,       \* a refresh asked for by async_request_refresh is pending
    wizard,                  \* the options flow (AdamOptionsFlow): its fields, form and requests
    flow,                    \* the config flow (AdamConfigFlow): its fields, request and result
    entities                 \* the entities the platforms' async_setup_entry have created

vars == <<pc, locals, data, last_update_success, outcome, button_event_listeners,
          registrations, dispatched, recv, cmd, refresh_requested, wizard, flow, entities>>

----------------------------------------------------------------------------
(* Bounds of the model *)

MaxPins == 2        \* longest pin list the merge is checked on
MaxCovers == 2      \* longest dedicated covers list the merge is checked on
MaxEvents == 2      \* longest button-event list of one response
MaxListeners == 3   \* registrations made over the coordinator's life

----------------------------------------------------------------------------
(* Python values *)

\* dict.get(key) of a missing key, for the integer-valued cover fields
None == -1

\* dict.get(key, default)
Get(d, k, default) == IF k \in DOMAIN d THEN d[k] ELSE default

\* coordinator.data before the first successful cycle
NoData == <<>>

RECURSIVE SeqsUpTo(_, _)
\* all sequences over S of length at most n
SeqsUpTo(S, n) ==
    IF n = 0 THEN {<<>>}
    ELSE LET shorter == SeqsUpTo(S, n - 1)
         IN  shorter \cup {Append(s, x) : s \in {t \in shorter : Len(t) = n - 1}, x \in S}

\* the sequences that name no element twice
Distinct(s) == \A i, j \in 1..Len(s) : i # j => s[i] # s[j]

----------------------------------------------------------------------------
(* HTTP responses: a status with a JSON body, or an exception of the client *)

Http(status, body) == [kind |-> "http", status |-> status, body |-> body]
Raised(exc, body)  == [kind |-> exc, status |-> 0, body |-> body]

\* every outcome of one request: 200 with each body, a non-200 status, a
\* transport error and a timeout (the body of a failure is never read)
Responses(bodies, empty) ==
    {Http(200, b) : b \in bodies}
        \cup {Http(500, empty), Raised("ClientError", empty), Raised("TimeoutError", empty)}

\* only successful responses
OkResponses(bodies) == {Http(200, b) : b \in bodies}

\* what is remembered of a response: whether it was a 200 and its body
Received(r) ==
    [st   |-> IF r.kind = "http" /\ r.status = 200 THEN "ok" ELSE "fail",
     body |-> r.body]

NotReceived(empty) == [st |-> "none", body |-> empty]

----------------------------------------------------------------------------
(* The cover merge of _async_update_data *)

IsCover(pin_config) == Get(pin_config, "type", "") = "cover"

\* the coverId a cover entry of the pin list stands for
PinCoverId(pin_config) ==
    LET p == Get(pin_config, "pin", 100) - 100
    IN  Get(pin_config, "coverId", IF p > 0 THEN p ELSE 0)

\* the pin list forgotten: every dedicated cover is taken as new
ExistingCoverIdsIgnoringPins(raw_pins_config) == {}

ExistingCoverIds(raw_pins_config) ==
    {PinCoverId(raw_pins_config[i]) :
        i \in {j \in 1..Len(raw_pins_config) : IsCover(raw_pins_config[j])}}

CoverName(cover_id) == "Cover " \o ToString(cover_id + 1)

\* the pin-list-shaped entry built from an entry of /api/covers/config
SynthesizedCover(cover) ==
    LET cover_id == cover["coverId"]
    IN  [pin           |-> 100 + cover_id,
         type          |-> "cover",
         name          |-> Get(cover, "name", CoverName(cover_id)),
         isInput       |-> FALSE,
         coverId       |-> cover_id,
         inputUpPin    |-> Get(cover, "inputUpPin", None),
         inputDownPin  |-> Get(cover, "inputDownPin", None),
         outputUpPin   |-> Get(cover, "outputUpPin", None),
         outputDownPin |-> Get(cover, "outputDownPin", None),
         upTimeSec     |-> Get(cover, "upTimeSec", None),
         downTimeSec   |-> Get(cover, "downTimeSec", None),
         interlock     |-> Get(cover, "interlock", TRUE),
         moving        |-> Get(cover, "moving", FALSE),
         direction     |-> Get(cover, "direction", "stopped")]

\* the loop's skip test: no coverId, or a coverId the pin list already has
SkipCover(cover, existing_cover_ids) ==
    \/ "coverId" \notin DOMAIN cover
    \/ cover["coverId"] \in existing_cover_ids

RECURSIVE AppendCovers(_, _, _)
AppendCovers(merged, covers_config, existing_cover_ids) ==
    IF covers_config = <<>> THEN merged
    ELSE LET cover == Head(covers_config)
         IN  AppendCovers(
                 IF SkipCover(cover, existing_cover_ids)
                     THEN merged
                     ELSE Append(merged, SynthesizedCover(cover)),
                 Tail(covers_config),
                 existing_cover_ids)

MergeCovers(raw_pins_config, covers_config) ==
    AppendCovers(raw_pins_config, covers_config, ExistingCoverIds(raw_pins_config))

----------------------------------------------------------------------------
(* The per-pin state loop of _async_update_data *)

\* only the type is tested, a pin from 100 on is requested like any other
SkipsStateOfCoversOnly(pin_config) == IsCover(pin_config)

\* entries the loop passes over without a request
SkipsState(pin_config) == IsCover(pin_config) \/ pin_config["pin"] >= 100

IsInput(pin_config) ==
    Get(pin_config, "isInput", Get(pin_config, "type", "") = "binary_sensor")

StateKey(pin_config) ==
    (IF IsInput(pin_config) THEN "in" ELSE "out") \o "_" \o ToString(pin_config["pin"])

RECURSIVE NextStateIdx(_, _)
\* the first entry at or after i that the loop requests the state of
NextStateIdx(merged, i) ==
    IF i > Len(merged) THEN i
    ELSE IF SkipsState(merged[i]) THEN NextStateIdx(merged, i + 1)
    ELSE i

\* d[key] = value
Put(d, key, value) == [k \in DOMAIN d \cup {key} |-> IF k = key THEN value ELSE d[k]]

----------------------------------------------------------------------------
(* covers_state: the list of /api/covers/state keyed by coverId *)

RECURSIVE CoversStateMap(_, _)
CoversStateMap(acc, covers) ==
    IF covers = <<>> THEN acc
    ELSE LET cover_state == Head(covers)
         IN  CoversStateMap(
                 IF "coverId" \in DOMAIN cover_state
                     THEN Put(acc, cover_state["coverId"], cover_state)
                     ELSE acc,
                 Tail(covers))

----------------------------------------------------------------------------
(* register_button_event_listener and _trigger_button_events *)

\* the pin's list replaced instead of extended
RegisterListenerReplacing(listeners, pin, callback) == Put(listeners, pin, <<callback>>)

RegisterListener(listeners, pin, callback) ==
    Put(listeners, pin, Append(Get(listeners, pin, <<>>), callback))

Registrations(listeners) ==
    LET RECURSIVE Sum(_)
        Sum(S) == IF S = {} THEN 0
                  ELSE LET p == CHOOSE q \in S : TRUE
                       IN  Len(listeners[p]) + Sum(S \ {p})
    IN  Sum(DOMAIN listeners)

\* one callback(event_type): the call made and whether it raised
Call(k, pin, callback, event_type, raising) ==
    [event |-> k, pin |-> pin, callback |-> callback,
     event_type |-> event_type, raised |-> callback \in raising]

RECURSIVE CallAllUntilRaise(_, _, _, _, _)
\* the try around the loop instead of inside it: a raise ends the loop
CallAllUntilRaise(k, pin, callbacks, event_type, raising) ==
    IF callbacks = <<>> THEN <<>>
    ELSE <<Call(k, pin, Head(callbacks), event_type, raising)>>
             \o (IF Head(callbacks) \in raising
                     THEN <<>>
                     ELSE CallAllUntilRaise(k, pin, Tail(callbacks), event_type, raising))

RECURSIVE CallAllNewestFirst(_, _, _, _, _)
\* the list walked from its end
CallAllNewestFirst(k, pin, callbacks, event_type, raising) ==
    IF callbacks = <<>> THEN <<>>
    ELSE CallAllNewestFirst(k, pin, Tail(callbacks), event_type, raising)
             \o <<Call(k, pin, Head(callbacks), event_type, raising)>>

RECURSIVE CallAll(_, _, _, _, _)
\* the inner loop: every callback of the pin, an exception caught and logged
CallAll(k, pin, callbacks, event_type, raising) ==
    IF callbacks = <<>> THEN <<>>
    ELSE <<Call(k, pin, Head(callbacks), event_type, raising)>>
             \o CallAll(k, pin, Tail(callbacks), event_type, raising)

RECURSIVE TriggerFrom(_, _, _, _)
TriggerFrom(k, button_events, listeners, raising) ==
    IF k > Len(button_events) THEN <<>>
    ELSE LET event == button_events[k]
             pin   == event["inputPin"]
         IN  (IF pin \in DOMAIN listeners
                  THEN CallAll(k, pin, listeners[pin], event["eventType"], raising)
                  ELSE <<>>)
                 \o TriggerFrom(k + 1, button_events, listeners, raising)

\* the events of the published snapshot are dispatched again before the new ones
TriggerButtonEventsWithBacklog(button_events, listeners, raising) ==
    TriggerFrom(1, Get(data, "button_events", <<>>) \o button_events, listeners, raising)

\* an event of the published snapshot is not dispatched a second time
TriggerButtonEventsNewOnly(button_events, listeners, raising) ==
    TriggerFrom(1, SelectSeq(button_events,
                             LAMBDA e : \A j \in DOMAIN Get(data, "button_events", <<>>) :
                                            data["button_events"][j] # e),
                listeners, raising)

\* the calls _trigger_button_events makes, in order; `raising` are the
\* callbacks that raise when called
TriggerButtonEvents(button_events, listeners, raising) ==
    TriggerFrom(1, button_events, listeners, raising)

----------------------------------------------------------------------------
(* The polling cycle: AdamCoordinator._async_update_data *)

EmptyLocals ==
    [device_info        |-> <<>>,
     raw_pins_config    |-> <<>>,
     covers_config      |-> <<>>,
     merged_pins_config |-> <<>>,
     i                  |-> 0,
     pin_states         |-> <<>>,
     covers_state       |-> <<>>,
     triggers           |-> <<>>,
     button_events      |-> <<>>,
     xr8_modules        |-> <<>>]

EmptyRecv ==
    [info          |-> NotReceived(<<>>),
     pins_config   |-> NotReceived(<<>>),
     covers_config |-> NotReceived(<<>>),
     pin_state     |-> <<>>,
     covers_state  |-> NotReceived(<<>>),
     triggers      |-> NotReceived(<<>>),
     button_events |-> NotReceived(<<>>),
     xr8           |-> NotReceived(<<>>)]

NoDispatch == [button_events |-> <<>>, calls |-> <<>>]

\* the except clauses without TimeoutError
CaughtWithoutTimeout == {"ClientError"}

\* the exceptions the inner try blocks and the outer try block catch
CaughtExceptions == {"ClientError", "TimeoutError"}

\* the status check left out: any response that arrived is read as JSON
FatalFailureWithoutStatusCheck(r) == r.kind # "http"

\* info and pin config: `if resp.status != 200: raise UpdateFailed`, and an
\* exception of the request reaches the outer except, which raises UpdateFailed
FatalFailure(r) == r.kind # "http" \/ r.status # 200

\* the other requests: the body is used `if resp.status == 200`
SoftOk(r) == r.kind = "http" /\ r.status = 200

\* an exception the inner except clause lets through reaches the outer one
SoftEscapes(r) == r.kind # "http" /\ r.kind \notin CaughtExceptions

\* the dict _async_update_data returns
Snapshot(l) ==
    [device_info   |-> l.device_info,
     pins_config   |-> l.merged_pins_config,
     pin_states    |-> l.pin_states,
     triggers      |-> l.triggers,
     button_events |-> l.button_events,
     covers_state  |-> l.covers_state,
     covers_config |-> l.covers_config,
     xr8_modules   |-> l.xr8_modules]

\* what was built so far is published when the cycle fails
RaiseUpdateFailedPublishingPartial ==
    /\ pc' = "idle"
    /\ locals' = EmptyLocals
    /\ outcome' = "UpdateFailed"
    /\ last_update_success' = FALSE
    /\ data' = Snapshot(locals)

\* _async_update_data raises UpdateFailed: the coordinator keeps its data
RaiseUpdateFailed ==
    /\ pc' = "idle"
    /\ locals' = EmptyLocals
    /\ outcome' = "UpdateFailed"
    /\ last_update_success' = FALSE
    /\ UNCHANGED data

\* the poller (timer, or a requested refresh) calls _async_update_data,
\* which issues the first request
StartCycle ==
    /\ pc = "idle"
    /\ pc' = "info"
    /\ locals' = EmptyLocals
    /\ recv' = EmptyRecv
    /\ outcome' = "running"
    /\ refresh_requested' = FALSE
    /\ dispatched' = NoDispatch
    /\ UNCHANGED <<data, last_update_success, button_event_listeners, registrations, cmd,
                   wizard, flow, entities>>

FetchInfo(responses) ==
    /\ pc = "info"
    /\ \E r \in responses :
        /\ recv' = [recv EXCEPT !.info = Received(r)]
        /\ IF FatalFailure(r)
               THEN RaiseUpdateFailed
               ELSE /\ locals' = [locals EXCEPT !.device_info = r.body]
                    /\ pc' = "pins_config"
                    /\ UNCHANGED <<data, last_update_success, outcome>>
    /\ UNCHANGED <<button_event_listeners, registrations, dispatched, cmd, refresh_requested,
                   wizard, flow, entities>>

FetchPinsConfig(responses) ==
    /\ pc = "pins_config"
    /\ \E r \in responses :
        /\ recv' = [recv EXCEPT !.pins_config = Received(r)]
        /\ IF FatalFailure(r)
               THEN RaiseUpdateFailed
               ELSE /\ locals' = [locals EXCEPT
                                    !.raw_pins_config = Get(r.body, "pins", <<>>)]
                    /\ pc' = "covers_config"
                    /\ UNCHANGED <<data, last_update_success, outcome>>
    /\ UNCHANGED <<button_event_listeners, registrations, dispatched, cmd, refresh_requested,
                   wizard, flow, entities>>

\* the covers-config response, the merge, and the start of the state loop
FetchCoversConfig(responses) ==
    /\ pc = "covers_config"
    /\ \E r \in responses :
        /\ recv' = [recv EXCEPT !.covers_config = Received(r)]
        /\ IF SoftEscapes(r)
               THEN RaiseUpdateFailed
               ELSE LET covers == IF SoftOk(r) THEN Get(r.body, "covers", <<>>) ELSE <<>>
                        merged == MergeCovers(locals.raw_pins_config, covers)
                        first  == NextStateIdx(merged, 1)
                    IN  /\ locals' = [locals EXCEPT !.covers_config = covers,
                                                    !.merged_pins_config = merged,
                                                    !.i = first]
                        /\ pc' = IF first <= Len(merged) THEN "pin_state" ELSE "covers_state"
                        /\ UNCHANGED <<data, last_update_success, outcome>>
    /\ UNCHANGED <<button_event_listeners, registrations, dispatched, cmd, refresh_requested,
                   wizard, flow, entities>>

\* one iteration of the state loop that issues a request
FetchPinState(responses) ==
    /\ pc = "pin_state"
    /\ \E r \in responses :
        LET pin_config == locals.merged_pins_config[locals.i]
            state_key  == StateKey(pin_config)
            next       == NextStateIdx(locals.merged_pins_config, locals.i + 1)
        IN  /\ recv' = [recv EXCEPT !.pin_state = Put(@, state_key, Received(r))]
            /\ IF SoftEscapes(r)
                   THEN RaiseUpdateFailed
                   ELSE /\ locals' = [locals EXCEPT
                                        !.pin_states = IF SoftOk(r)
                                                           THEN Put(@, state_key, r.body)
                                                           ELSE @,
                                        !.i = next]
                        /\ pc' = IF next <= Len(locals.merged_pins_config)
                                     THEN "pin_state" ELSE "covers_state"
                        /\ UNCHANGED <<data, last_update_success, outcome>>
    /\ UNCHANGED <<button_event_listeners, registrations, dispatched, cmd, refresh_requested,
                   wizard, flow, entities>>

FetchCoversState(responses) ==
    /\ pc = "covers_state"
    /\ \E r \in responses :
        /\ recv' = [recv EXCEPT !.covers_state = Received(r)]
        /\ IF SoftEscapes(r)
               THEN RaiseUpdateFailed
               ELSE /\ locals' = [locals EXCEPT
                                    !.covers_state =
                                        IF SoftOk(r)
                                            THEN CoversStateMap(<<>>, Get(r.body, "covers", <<>>))
                                            ELSE <<>>]
                    /\ pc' = "triggers"
                    /\ UNCHANGED <<data, last_update_success, outcome>>
    /\ UNCHANGED <<button_event_listeners, registrations, dispatched, cmd, refresh_requested,
                   wizard, flow, entities>>

FetchTriggers(responses) ==
    /\ pc = "triggers"
    /\ \E r \in responses :
        /\ recv' = [recv EXCEPT !.triggers = Received(r)]
        /\ IF SoftEscapes(r)
               THEN RaiseUpdateFailed
               ELSE /\ locals' = [locals EXCEPT
                                    !.triggers = IF SoftOk(r)
                                                     THEN Get(r.body, "triggers", <<>>)
                                                     ELSE <<>>]
                    /\ pc' = "button_events"
                    /\ UNCHANGED <<data, last_update_success, outcome>>
    /\ UNCHANGED <<button_event_listeners, registrations, dispatched, cmd, refresh_requested,
                   wizard, flow, entities>>

\* the button-events response and the dispatch that follows it without an
\* await; `callbacks` are the callbacks that may raise
FetchButtonEvents(responses, callbacks) ==
    /\ pc = "button_events"
    /\ \E r \in responses, raising \in SUBSET callbacks :
        /\ recv' = [recv EXCEPT !.button_events = Received(r)]
        /\ IF SoftEscapes(r)
               THEN RaiseUpdateFailed /\ UNCHANGED dispatched
               ELSE LET events == IF SoftOk(r) THEN Get(r.body, "events", <<>>) ELSE <<>>
                    IN  /\ locals' = [locals EXCEPT !.button_events = events]
                        /\ dispatched' =
                               [button_events |-> events,
                                calls         |-> TriggerButtonEvents(
                                                      events, button_event_listeners, raising)]
                        /\ pc' = "xr8"
                        /\ UNCHANGED <<data, last_update_success, outcome>>
    /\ UNCHANGED <<button_event_listeners, registrations, cmd, refresh_requested,
                   wizard, flow, entities>>

\* the relay-module response; the method returns and the coordinator
\* replaces its data by the returned dict
FetchXR8Modules(responses) ==
    /\ pc = "xr8"
    /\ \E r \in responses :
        /\ recv' = [recv EXCEPT !.xr8 = Received(r)]
        /\ IF SoftEscapes(r)
               THEN RaiseUpdateFailed
               ELSE /\ data' = Snapshot([locals EXCEPT
                                           !.xr8_modules = IF SoftOk(r)
                                                               THEN Get(r.body, "modules", <<>>)
                                                               ELSE <<>>])
                    /\ locals' = EmptyLocals
                    /\ pc' = "idle"
                    /\ outcome' = "returned"
                    /\ last_update_success' = TRUE
    /\ UNCHANGED <<button_event_listeners, registrations, dispatched, cmd, refresh_requested,
                   wizard, flow, entities>>

\* an entity is created and registers its callback
Register(pins, callbacks) ==
    /\ Registrations(button_event_listeners) < MaxListeners
    /\ \E pin \in pins, callback \in callbacks :
        /\ button_event_listeners' = RegisterListener(button_event_listeners, pin, callback)
        /\ registrations' = Append(registrations, [pin |-> pin, callback |-> callback])
    /\ UNCHANGED <<pc, locals, data, last_update_success, outcome, dispatched, recv,
                   cmd, refresh_requested, wizard, flow, entities>>

----------------------------------------------------------------------------
(* Commands: one POST each, then a refresh request when it returned 200 *)

NoCommand ==
    [op |-> "", pc |-> "none", requests |-> <<>>, resp |-> [kind |-> "", status |-> 0],
     refreshes |-> 0, reloads |-> 0, result |-> "", raised |-> "", args |-> <<>>]

\* the method is entered and its POST is issued
Post(op, path, payload) ==
    [op |-> op, pc |-> "awaiting", requests |-> <<[path |-> path, json |-> payload]>>,
     resp |-> [kind |-> "", status |-> 0],
     refreshes |-> 0, reloads |-> 0, result |-> "", raised |-> "", args |-> <<>>]

CoordinatorCommands ==
    {"async_set_pin_state", "async_configure_pin", "async_cover_command",
     "async_configure_cover", "async_configure_xr8_module"}

\* the refresh requested whatever the status was
CoordinatorCommandOutcomeAlwaysRefreshing(r) ==
    IF r.kind = "http"
        THEN [refresh |-> TRUE, result |-> IF r.status = 200 THEN "True" ELSE "False",
              raised |-> ""]
        ELSE [refresh |-> FALSE, result |-> "False", raised |-> ""]

\* how a command method of the coordinator ends on response r:
\* 200 -> async_request_refresh and True; another status -> False;
\* ClientError or TimeoutError -> logged, False; anything else propagates
CoordinatorCommandOutcome(r) ==
    IF r.kind = "http"
        THEN IF r.status = 200
                 THEN [refresh |-> TRUE, result |-> "True", raised |-> ""]
                 ELSE [refresh |-> FALSE, result |-> "False", raised |-> ""]
        ELSE IF r.kind \in CaughtExceptions
                 THEN [refresh |-> FALSE, result |-> "False", raised |-> ""]
                 ELSE [refresh |-> FALSE, result |-> "", raised |-> r.kind]

\* XR8RelaySwitch._set_relay_state: the refresh on 200, nothing returned,
\* ClientError and TimeoutError swallowed
SetRelayStateOutcome(r) ==
    IF r.kind = "http"
        THEN [refresh |-> r.status = 200, result |-> "None", raised |-> ""]
        ELSE IF r.kind \in CaughtExceptions
                 THEN [refresh |-> FALSE, result |-> "None", raised |-> ""]
                 ELSE [refresh |-> FALSE, result |-> "", raised |-> r.kind]

\* async_step_device_name: a reload of the config entry on 200, a bare
\* except, and the main menu as the step's result whatever happened
DeviceNameOutcome(r) ==
    [reload |-> r.kind = "http" /\ r.status = 200, result |-> "main_menu", raised |-> ""]

CommandIdle == cmd.pc # "awaiting"

CommandFrame ==
    UNCHANGED <<pc, locals, data, last_update_success, outcome,
                button_event_listeners, registrations, dispatched, recv, wizard, flow, entities>>

AsyncSetPinState(pins, kwargs_set) ==
    /\ CommandIdle
    /\ \E pin \in pins, command \in {"on", "off"}, kwargs \in kwargs_set :
        cmd' = Post("async_set_pin_state", "/api/pin/control",
                    IF "brightness" \in DOMAIN kwargs
                        THEN [pin |-> pin, command |-> command,
                              brightness |-> kwargs["brightness"]]
                        ELSE [pin |-> pin, command |-> command])
    /\ UNCHANGED refresh_requested
    /\ CommandFrame

AsyncConfigurePin(pins) ==
    /\ CommandIdle
    /\ \E pin \in pins, pin_type \in {"light", "switch"} :
        cmd' = Post("async_configure_pin", "/api/pin/configure",
                    [pin |-> pin, type |-> pin_type, name |-> "Lamp"])
    /\ UNCHANGED refresh_requested
    /\ CommandFrame

AsyncCoverCommand(cover_ids) ==
    /\ CommandIdle
    /\ \E cover_id \in cover_ids, command \in {"open", "close", "stop"} :
        cmd' = Post("async_cover_command", "API_COVER_CONTROL",
                    [coverId |-> cover_id, command |-> command])
    /\ UNCHANGED refresh_requested
    /\ CommandFrame

AsyncConfigureCover(cover_ids, times) ==
    /\ CommandIdle
    /\ \E cover_id \in cover_ids, up_time_sec \in times, down_time_sec \in times :
        cmd' = Post("async_configure_cover", "API_COVER_CONFIGURE",
                    [coverId       |-> cover_id,
                     name          |-> "Blind",
                     inputUpPin    |-> 0,
                     inputDownPin  |-> 1,
                     outputUpPin   |-> 0,
                     outputDownPin |-> 1,
                     upTimeSec     |-> up_time_sec,
                     downTimeSec   |-> down_time_sec,
                     interlock     |-> TRUE])
    /\ UNCHANGED refresh_requested
    /\ CommandFrame

\* the relays are sent whenever names were given, however many
ConfigureXR8PayloadOfAnyLength(module_id, address, configured, relay_names) ==
    LET payload == [moduleId |-> module_id, address |-> address, configured |-> configured]
    IN  IF relay_names # <<>>
            THEN Put(payload, "relays",
                     [n \in 1..Len(relay_names) |-> [name |-> relay_names[n]]])
            ELSE payload

\* the payload of async_configure_xr8_module.  relay_names: None is <<>>,
\* falsy like the empty list; the relays are sent only for exactly 8 names
ConfigureXR8Payload(module_id, address, configured, relay_names) ==
    LET payload == [moduleId |-> module_id, address |-> address, configured |-> configured]
    IN  IF relay_names # <<>> /\ Len(relay_names) = 8
            THEN Put(payload, "relays",
                     [n \in 1..Len(relay_names) |-> [name |-> relay_names[n]]])
            ELSE payload

AsyncConfigureXR8Module(module_ids, relay_names_set) ==
    /\ CommandIdle
    /\ \E module_id \in module_ids, configured \in BOOLEAN, relay_names \in relay_names_set :
        cmd' = [Post("async_configure_xr8_module", "/api/xr8/configure",
                     ConfigureXR8Payload(module_id, 32 + module_id, configured, relay_names))
                EXCEPT !.args = [module_id |-> module_id, address |-> 32 + module_id,
                                 configured |-> configured, relay_names |-> relay_names]]
    /\ UNCHANGED refresh_requested
    /\ CommandFrame

\* the POST of a coordinator command is answered and the method returns
CoordinatorCommandReturns(responses) ==
    /\ cmd.pc = "awaiting"
    /\ cmd.op \in CoordinatorCommands
    /\ \E r \in responses :
        LET o == CoordinatorCommandOutcome(r)
        IN  /\ cmd' = [cmd EXCEPT !.pc = "done",
                                  !.resp = [kind |-> r.kind, status |-> r.status],
                                  !.refreshes = IF o.refresh THEN @ + 1 ELSE @,
                                  !.result = o.result,
                                  !.raised = o.raised]
            /\ refresh_requested' = (refresh_requested \/ o.refresh)
    /\ CommandFrame

SetRelayState(module_ids, relay_ids) ==
    /\ CommandIdle
    /\ \E module_id \in module_ids, relay_id \in relay_ids, state \in BOOLEAN :
        cmd' = Post("_set_relay_state", "/api/xr8/relay/control",
                    [moduleId |-> module_id, relayId |-> relay_id, state |-> state])
    /\ UNCHANGED refresh_requested
    /\ CommandFrame

SetRelayStateReturns(responses) ==
    /\ cmd.pc = "awaiting"
    /\ cmd.op = "_set_relay_state"
    /\ \E r \in responses :
        LET o == SetRelayStateOutcome(r)
        IN  /\ cmd' = [cmd EXCEPT !.pc = "done",
                                  !.resp = [kind |-> r.kind, status |-> r.status],
                                  !.refreshes = IF o.refresh THEN @ + 1 ELSE @,
                                  !.result = o.result,
                                  !.raised = o.raised]
            /\ refresh_requested' = (refresh_requested \/ o.refresh)
    /\ CommandFrame

StepDeviceName(names) ==
    /\ CommandIdle
    /\ \E name \in names :
        cmd' = Post("async_step_device_name", "/api/device/name", [name |-> name])
    /\ UNCHANGED refresh_requested
    /\ CommandFrame

StepDeviceNameReturns(responses) ==
    /\ cmd.pc = "awaiting"
    /\ cmd.op = "async_step_device_name"
    /\ \E r \in responses :
        LET o == DeviceNameOutcome(r)
        IN  cmd' = [cmd EXCEPT !.pc = "done",
                               !.resp = [kind |-> r.kind, status |-> r.status],
                               !.reloads = IF o.reload THEN @ + 1 ELSE @,
                               !.result = o.result,
                               !.raised = o.raised]
    /\ UNCHANGED refresh_requested
    /\ CommandFrame

----------------------------------------------------------------------------
(* The firmware update entity: AdamUpdateEntity.async_install.  The        *)
(* command record holds the entity's _release_url and _attr_in_progress,   *)
(* the requests made, their answers, and how often the flag was set        *)
(* (`starts`) and a refresh requested (`refreshes`).                       *)

\* the install is called: without a release URL it returns at once, with
\* one it sets the flag and downloads the firmware
AsyncInstall(release_urls) ==
    /\ cmd.pc \in {"none", "done"}
    /\ \E release_url \in release_urls :
        cmd' = IF release_url = ""
                   THEN [op |-> "async_install", pc |-> "done", release_url |-> release_url,
                         in_progress |-> FALSE, starts |-> 0, requests |-> <<>>,
                         answers |-> <<>>, refreshes |-> 0]
                   ELSE [op |-> "async_install", pc |-> "download",
                         release_url |-> release_url,
                         in_progress |-> TRUE, starts |-> 1,
                         requests |-> <<[method |-> "GET", path |-> release_url]>>,
                         answers |-> <<>>, refreshes |-> 0]
    /\ UNCHANGED refresh_requested
    /\ CommandFrame

InstallAnswered(c, r) == [c EXCEPT !.answers = Append(@, [kind |-> r.kind, status |-> r.status])]

\* the download is answered: the firmware is uploaded when it is 200, the
\* install ends with the flag cleared otherwise (`except Exception` too)
InstallDownloadReturns(responses) ==
    /\ cmd.op = "async_install"
    /\ cmd.pc = "download"
    /\ \E r \in responses :
        cmd' = IF r.kind = "http" /\ r.status = 200
                   THEN [InstallAnswered(cmd, r) EXCEPT
                            !.pc = "upload",
                            !.requests = Append(@, [method |-> "POST", path |-> "/api/update"])]
                   ELSE [InstallAnswered(cmd, r) EXCEPT !.pc = "done", !.in_progress = FALSE]
    /\ UNCHANGED refresh_requested
    /\ CommandFrame

\* a refresh whatever the upload's answer
InstallWaitsForRebootAlways(r) == TRUE

\* `if resp.status == 200` of the upload: the reboot is waited for and the
\* coordinator refreshed
InstallWaitsForReboot(r) == r.kind = "http" /\ r.status = 200

\* the upload is answered: the flag is cleared on every path
InstallUploadReturns(responses) ==
    /\ cmd.op = "async_install"
    /\ cmd.pc = "upload"
    /\ \E r \in responses :
        cmd' = [InstallAnswered(cmd, r) EXCEPT
                   !.pc = IF InstallWaitsForReboot(r) THEN "sleep" ELSE "done",
                   !.in_progress = FALSE]
    /\ UNCHANGED refresh_requested
    /\ CommandFrame

\* asyncio.sleep(15) is over: coordinator.async_request_refresh()
InstallRefreshes ==
    /\ cmd.op = "async_install"
    /\ cmd.pc = "sleep"
    /\ cmd' = [cmd EXCEPT !.pc = "done", !.refreshes = @ + 1]
    /\ refresh_requested' = TRUE
    /\ CommandFrame

----------------------------------------------------------------------------
(* The options flow (the wizard): AdamOptionsFlow.  `step` is the form it  *)
(* shows, `pc` the request it awaits ("form" while it waits for the user), *)
(* `requests` the requests issued since the form was submitted, `answers`  *)
(* the answers to the saving requests among them, `user_input` what was    *)
(* submitted to a pin or relay-module form, `options` the choices the             *)
(* relay-module menu offered, `xr8_modules` the module list the last       *)
(* answer of /api/xr8/list carried to _fetch_pin_data.  The labels and     *)
(* descriptions of the forms are left out.                                 *)

\* AdamOptionsFlow.__init__: the flow before it is opened
NoWizard ==
    [revision             |-> "",
     step                 |-> "",
     pc                   |-> "closed",
     ret                  |-> "",
     device_name          |-> "",
     all_pins             |-> <<>>,
     available_input_pins |-> {},
     available_output_pins |-> {},
     xr8_modules          |-> <<>>,
     pin_to_configure     |-> None,
     is_input             |-> FALSE,
     input_config         |-> <<>>,
     cover_to_configure   |-> None,
     errors               |-> "",
     options              |-> {},
     user_input           |-> <<>>,
     requests             |-> <<>>,
     answers              |-> <<>>,
     reloads              |-> 0]

Request(method, path, json) == [method |-> method, path |-> path, json |-> json]

\* async_show_form(step_id=..., errors=...)
ShowForm(w, step_id, errors) ==
    [w EXCEPT !.step = step_id, !.pc = "form", !.ret = "", !.errors = errors]

\* a request is issued and the flow awaits its response at `label`
Await(w, label, request) ==
    [w EXCEPT !.pc = label, !.requests = Append(@, request)]

\* the user submits the form shown: a new call of the step
Submitted(w) == [w EXCEPT !.requests = <<>>, !.answers = <<>>, !.reloads = 0, !.errors = ""]

\* the answer r to the request to `path` has come in
Answered(w, path, r) ==
    [w EXCEPT !.answers = Append(@, [path |-> path, kind |-> r.kind, status |-> r.status])]

\* _fetch_pin_data is entered; `ret` is where its caller goes on afterwards.
\* The older revision keeps no lists of available pins.
BeginFetchPinData(w, ret) ==
    Await([w EXCEPT !.ret = ret,
                    !.available_input_pins = {},
                    !.available_output_pins = {}],
          "fetch_info", Request("GET", "/api/info", <<>>))

\* the physical pins (0..15) among a set of pin numbers
PhysicalPins(pins) == {i \in pins : 0 <= i /\ i < 16}

\* async_step_edit_cover: the error that hides the form's fields
EditCoverErrors(w) ==
    IF Cardinality(PhysicalPins(w.available_input_pins)) < 2
        THEN "cover_requires_two_inputs"
    ELSE IF Cardinality(PhysicalPins(w.available_output_pins)) < 2
        THEN "cover_requires_two_outputs"
    ELSE ""

\* what the caller of _fetch_pin_data does when it has returned
AfterFetchPinData(w) ==
    CASE w.ret = "main_menu"         -> ShowForm(w, "main_menu", "")
      [] w.ret = "configure_inputs"  -> ShowForm(w, "configure_inputs", "")
      [] w.ret = "configure_outputs" -> ShowForm(w, "configure_outputs", "")
      [] w.ret = "configure_covers"  -> ShowForm(w, "configure_covers", "")
      [] w.ret = "configure_triggers" -> ShowForm(w, "configure_triggers", "")
      [] w.ret = "configure_xr8"     -> [w EXCEPT !.step = "configure_xr8",
                                                  !.pc = "xr8_refresh", !.ret = ""]
      [] w.ret = "done"              -> [w EXCEPT !.step = "create_entry", !.pc = "closed",
                                                  !.ret = ""]
      [] w.ret = "save_pin"          ->
             ShowForm([w EXCEPT !.reloads = @ + 1],
                      IF w.input_config["isInput"]
                          THEN "configure_inputs" ELSE "configure_outputs", "")
      [] w.ret = "older_save_pin"    ->
             ShowForm([w EXCEPT !.reloads = @ + 1],
                      IF w.is_input THEN "configure_inputs" ELSE "configure_outputs", "")
      [] w.ret = "save_cover"        ->
             ShowForm([w EXCEPT !.reloads = @ + 1], "configure_covers", "")

\* the pins of /api/pins/available the wizard offers, by direction
AvailablePins(pins, is_input) ==
    {pins[i]["pin"] :
        i \in {j \in 1..Len(pins) :
                 /\ "pin" \in DOMAIN pins[j]
                 /\ pins[j]["pin"] >= 0
                 /\ pins[j]["pin"] < 16
                 /\ Get(pins[j], "isInput", FALSE) = is_input}}

\* the module's factor forgotten: 1000 + moduleId + relayId
XR8VirtualPinsUnscaled(modules) ==
    UNION {{1000 + modules[i]["id"] + modules[i]["relays"][n]["id"] :
               n \in 1..Len(Get(modules[i], "relays", <<>>))} :
           i \in {j \in 1..Len(modules) : Get(modules[j], "configured", FALSE)}}

\* the relays of the configured modules as virtual output pins
XR8VirtualPins(modules) ==
    UNION {{1000 + (modules[i]["id"] * 100) + modules[i]["relays"][n]["id"] :
               n \in 1..Len(Get(modules[i], "relays", <<>>))} :
           i \in {j \in 1..Len(modules) : Get(modules[j], "configured", FALSE)}}

WizardFrame ==
    UNCHANGED <<pc, locals, data, last_update_success, outcome, button_event_listeners,
                registrations, dispatched, recv, cmd, refresh_requested, flow, entities>>

\* async_step_init: the flow is opened and the main menu fetches the pin data
WizardOpen(revisions) ==
    /\ wizard.pc = "closed"
    /\ wizard.step = ""
    /\ \E revision \in revisions :
        wizard' = BeginFetchPinData([NoWizard EXCEPT !.revision = revision], "main_menu")
    /\ WizardFrame

\* the choices of the main menu
MainMenuActions(revision) ==
    IF revision = "iotix_adam"
        THEN {"device_name", "configure_inputs", "configure_outputs",
              "configure_triggers", "done"}
        ELSE {"device_name", "configure_inputs", "configure_outputs", "configure_covers",
              "configure_xr8", "update_firmware", "done"}

\* async_step_main_menu with the user's choice: the pin data is fetched
\* again, then the chosen step is entered
StepMainMenu(actions) ==
    /\ wizard.pc = "form"
    /\ wizard.step = "main_menu"
    /\ \E action \in actions \cap MainMenuActions(wizard.revision) :
        wizard' = BeginFetchPinData(Submitted(wizard), action)
    /\ WizardFrame

\* _fetch_pin_data: the four requests.  A response that is not 200 leaves
\* the field as it was; an exception ends the method (bare except: pass)
WizardFetchInfo(responses) ==
    /\ wizard.pc = "fetch_info"
    /\ \E r \in responses :
        wizard' = IF r.kind # "http"
                      THEN AfterFetchPinData(wizard)
                      ELSE Await([wizard EXCEPT !.device_name =
                                     IF r.status = 200 THEN Get(r.body, "name", "IoTiX") ELSE @],
                                 "fetch_pins", Request("GET", "/api/pins/config", <<>>))
    /\ WizardFrame

WizardFetchPins(responses) ==
    /\ wizard.pc = "fetch_pins"
    /\ \E r \in responses :
        wizard' =
            IF r.kind # "http"
                THEN AfterFetchPinData(wizard)
                ELSE LET w == [wizard EXCEPT !.all_pins =
                                  IF r.status = 200 THEN Get(r.body, "pins", <<>>) ELSE @]
                     IN  IF wizard.revision = "iotix_adam"
                             THEN AfterFetchPinData(w)
                             ELSE Await(w, "fetch_available",
                                        Request("GET", "/api/pins/available", <<>>))
    /\ WizardFrame

WizardFetchAvailable(responses) ==
    /\ wizard.pc = "fetch_available"
    /\ \E r \in responses :
        wizard' =
            IF r.kind # "http"
                THEN AfterFetchPinData(wizard)
                ELSE LET pins == IF r.status = 200 THEN Get(r.body, "pins", <<>>) ELSE <<>>
                     IN  Await([wizard EXCEPT
                                   !.available_input_pins =
                                       IF r.status = 200 THEN AvailablePins(pins, TRUE) ELSE @,
                                   !.available_output_pins =
                                       IF r.status = 200 THEN AvailablePins(pins, FALSE) ELSE @],
                               "fetch_xr8", Request("GET", "/api/xr8/list", <<>>))
    /\ WizardFrame

WizardFetchXR8(responses) ==
    /\ wizard.pc = "fetch_xr8"
    /\ \E r \in responses :
        wizard' =
            IF r.kind = "http" /\ r.status = 200
                THEN LET xr8_modules == Get(r.body, "modules", <<>>)
                     IN  AfterFetchPinData(
                             [wizard EXCEPT !.xr8_modules = xr8_modules,
                                            !.available_output_pins =
                                                @ \cup XR8VirtualPins(xr8_modules)])
                ELSE AfterFetchPinData([wizard EXCEPT !.xr8_modules = <<>>])
    /\ WizardFrame

----------------------------------------------------------------------------
(* The wizard's cover steps *)

Max(a, b) == IF a >= b THEN a ELSE b

\* next(p for p in self._all_pins if type == "cover" and coverId == cover_id)
CoverPinOf(all_pins, cover_id) ==
    LET found == {j \in 1..Len(all_pins) :
                     /\ Get(all_pins[j], "type", "") = "cover"
                     /\ Get(all_pins[j], "coverId", None) = cover_id}
    IN  IF found = {} THEN <<>>
        ELSE all_pins[CHOOSE j \in found : \A k \in found : j <= k]

\* the payload of _save_cover_config, from the fields of the submitted form
SaveCoverPayload(cover_id, user_input, interlock) ==
    [coverId       |-> cover_id,
     name          |-> user_input["name"],
     inputUpPin    |-> user_input["input_up"],
     inputDownPin  |-> user_input["input_down"],
     outputUpPin   |-> user_input["output_up"],
     outputDownPin |-> user_input["output_down"],
     upTimeSec     |-> Max(1, user_input["up_time_sec"]),
     downTimeSec   |-> Max(1, user_input["down_time_sec"]),
     interlock     |-> interlock]

\* async_step_configure_covers with the chosen cover: async_step_edit_cover
\* shows its form
StepConfigureCovers(cover_ids) ==
    /\ wizard.pc = "form"
    /\ wizard.step = "configure_covers"
    /\ \E cover \in cover_ids :
        LET w == [Submitted(wizard) EXCEPT !.cover_to_configure = cover]
        IN  wizard' = ShowForm(w, "edit_cover", EditCoverErrors(w))
    /\ WizardFrame

\* the outputs not compared
SubmittedCoverErrorsInputsOnly(user_input) ==
    IF user_input["input_up"] = user_input["input_down"]
        THEN "cover_inputs_must_differ"
    ELSE ""

\* the tests async_step_edit_cover makes on the submitted pins
SubmittedCoverErrors(user_input) ==
    IF user_input["input_up"] = user_input["input_down"]
        THEN "cover_inputs_must_differ"
    ELSE IF user_input["output_up"] = user_input["output_down"]
        THEN "cover_outputs_must_differ"
    ELSE ""

\* async_step_edit_cover with the submitted fields; the pins offered are the
\* available physical pins, the times any integers
StepEditCover(names, times) ==
    /\ wizard.pc = "form"
    /\ wizard.step = "edit_cover"
    /\ LET w         == Submitted(wizard)
           cover_id  == w.cover_to_configure
           errors    == EditCoverErrors(w)
           inputs    == PhysicalPins(w.available_input_pins)
           outputs   == PhysicalPins(w.available_output_pins)
           cover_pin == CoverPinOf(w.all_pins, cover_id)
       IN  IF cover_id = None
               THEN wizard' = ShowForm(w, "configure_covers", "")
           ELSE IF errors # ""
               THEN wizard' = ShowForm(w, "edit_cover", errors)
           ELSE \E name \in names, input_up \in inputs, input_down \in inputs,
                   output_up \in outputs, output_down \in outputs,
                   up_time_sec \in times, down_time_sec \in times :
                    LET user_input == [name          |-> name,
                                       input_up      |-> input_up,
                                       input_down    |-> input_down,
                                       output_up     |-> output_up,
                                       output_down   |-> output_down,
                                       up_time_sec   |-> up_time_sec,
                                       down_time_sec |-> down_time_sec]
                    IN  wizard' =
                            IF SubmittedCoverErrors(user_input) # ""
                                THEN ShowForm(w, "edit_cover",
                                              SubmittedCoverErrors(user_input))
                            ELSE Await(w, "cover_configure",
                                       Request("POST", "/api/cover/configure",
                                               SaveCoverPayload(
                                                   cover_id, user_input,
                                                   Get(cover_pin, "interlock", TRUE))))
    /\ WizardFrame

\* _save_cover_config after its POST: on 200 the pin data is fetched and the
\* entry reloaded (True); otherwise, and on any exception, False and the
\* form is shown again with cannot_connect
SaveCoverConfigReturns(responses) ==
    /\ wizard.pc = "cover_configure"
    /\ \E r \in responses :
        wizard' = IF r.kind = "http" /\ r.status = 200
                      THEN BeginFetchPinData(wizard, "save_cover")
                      ELSE ShowForm(wizard, "edit_cover", "cannot_connect")
    /\ WizardFrame

----------------------------------------------------------------------------
(* The wizard's pin steps and _save_pin_config *)

\* the trigger output that stands for "None (No trigger)"
NoTrigger == 255

\* only the covers' down pins looked at
GetCoverForPinDownOnly(all_pins, pin_num, is_input) ==
    LET found == {j \in 1..Len(all_pins) :
                     /\ Get(all_pins[j], "type", "") = "cover"
                     /\ Get(all_pins[j], "pin", -1) >= 100
                     /\ pin_num = Get(all_pins[j],
                                      IF is_input THEN "inputDownPin" ELSE "outputDownPin",
                                      None)}
    IN  IF found = {} THEN <<>>
        ELSE all_pins[CHOOSE j \in found : \A k \in found : j <= k]

\* _get_cover_for_pin: the first configured cover (pin >= 100) that uses the
\* pin in the given direction, <<>> for None
GetCoverForPin(all_pins, pin_num, is_input) ==
    LET Uses(pin_config) ==
            IF is_input
                THEN pin_num \in {Get(pin_config, "inputUpPin", None),
                                  Get(pin_config, "inputDownPin", None)}
                ELSE pin_num \in {Get(pin_config, "outputUpPin", None),
                                  Get(pin_config, "outputDownPin", None)}
        found == {j \in 1..Len(all_pins) :
                     /\ Get(all_pins[j], "type", "") = "cover"
                     /\ Get(all_pins[j], "pin", -1) >= 100
                     /\ Uses(all_pins[j])}
    IN  IF found = {} THEN <<>>
        ELSE all_pins[CHOOSE j \in found : \A k \in found : j <= k]

\* async_step_edit_pin without user input: the form, with an error when the
\* pin belongs to a cover
EditPinForm(w) ==
    ShowForm(w, "edit_pin",
             IF /\ w.revision = "iotix"
                /\ GetCoverForPin(w.all_pins, w.pin_to_configure, w.is_input) # <<>>
                 THEN "pin_managed_by_cover" ELSE "")

\* the form async_step_configure_inputs or async_step_configure_outputs shows
PinListForm(w, is_input) ==
    ShowForm(w, IF is_input THEN "configure_inputs" ELSE "configure_outputs", "")

\* the type choices the edit form offers
TypeOptions(is_input) ==
    IF is_input THEN {"binary_sensor", "button", "unconfigured"}
    ELSE {"light", "switch", "cover", "unconfigured"}

\* the type choices the older wizard's edit form offers
OlderTypeOptions(is_input) ==
    IF is_input THEN {"binary_sensor", "unconfigured"}
    ELSE {"light", "switch", "cover", "unconfigured"}

\* every type saved
LeavesPinAloneNever(user_input) == FALSE

\* `user_input["type"] == "unconfigured"`: nothing is saved
LeavesPinAlone(user_input) == user_input["type"] = "unconfigured"

\* the outputs the trigger forms offer: none, the physical outputs, the relays
OutputOptions(w) ==
    {NoTrigger} \cup 0..15 \cup {pin \in w.available_output_pins : pin >= 1000}

\* the payload _save_pin_config sends to /api/pin/configure
SavePinPayload(config_data) ==
    LET base  == [pin     |-> config_data["pin"],
                  type    |-> IF config_data["type"] = "button"
                                  THEN "binary_sensor" ELSE config_data["type"],
                  name    |-> config_data["name"],
                  isInput |-> config_data["isInput"]]
        mode  == IF "buttonMode" \in DOMAIN config_data
                     THEN Put(base, "buttonMode", config_data["buttonMode"]) ELSE base
        long  == IF "longPressDuration" \in DOMAIN config_data
                     THEN Put(mode, "longPressDuration", config_data["longPressDuration"])
                     ELSE mode
    IN  IF "doublePressTimeframe" \in DOMAIN config_data
            THEN Put(long, "doublePressTimeframe", config_data["doublePressTimeframe"])
            ELSE long

\* _save_pin_config is entered: the pin-configure request is issued
SavePinConfig(w, config_data) ==
    Await([w EXCEPT !.input_config = config_data], "pin_configure",
          Request("POST", "/api/pin/configure", SavePinPayload(config_data)))

\* the sentinel not excepted: a trigger is set whenever one was selected
SetsClassicTriggerAlsoForNone(config_data) == "trigger_output" \in DOMAIN config_data

\* `"trigger_output" in config_data and config_data["trigger_output"] != 255`
SetsClassicTrigger(config_data) ==
    /\ "trigger_output" \in DOMAIN config_data
    /\ config_data["trigger_output"] # NoTrigger

SetsPushTriggers(config_data) ==
    \/ "short_press_output" \in DOMAIN config_data
    \/ "long_press_output" \in DOMAIN config_data
    \/ "double_press_output" \in DOMAIN config_data

\* _set_trigger is entered
SetTrigger(w, input_pin, output_pin) ==
    Await(w, "trigger_set",
          Request("POST", "/api/input/trigger/set",
                  [inputPin |-> input_pin, outputPin |-> output_pin]))

\* a press type with no action is left out of the request
SetPushTriggersOmittingNone(w, config_data) ==
    LET Chosen(json, key, field) ==
            IF Get(config_data, field, NoTrigger) # NoTrigger
                THEN Put(json, key, config_data[field]) ELSE json
    IN  Await(w, "push_trigger_set",
              Request("POST", "/api/input/trigger/set",
                      Chosen(Chosen(Chosen([inputPin |-> config_data["pin"]],
                          "shortPressOutput", "short_press_output"),
                          "longPressOutput", "long_press_output"),
                          "doublePressOutput", "double_press_output")))

\* _set_push_triggers is entered
SetPushTriggers(w, config_data) ==
    Await(w, "push_trigger_set",
          Request("POST", "/api/input/trigger/set",
                  [inputPin          |-> config_data["pin"],
                   shortPressOutput  |-> Get(config_data, "short_press_output", NoTrigger),
                   longPressOutput   |-> Get(config_data, "long_press_output", NoTrigger),
                   doublePressOutput |-> Get(config_data, "double_press_output", NoTrigger)]))

\* async_step_configure_inputs with the chosen input, in either revision
StepConfigureInputs(pins) ==
    /\ wizard.pc = "form"
    /\ wizard.step = "configure_inputs"
    /\ \E input \in pins :
        wizard' = EditPinForm([Submitted(wizard) EXCEPT !.pin_to_configure = input,
                                                        !.is_input = TRUE])
    /\ WizardFrame

\* async_step_configure_outputs with the chosen output, in either revision
StepConfigureOutputs(pins) ==
    /\ wizard.pc = "form"
    /\ wizard.step = "configure_outputs"
    /\ \E output \in pins :
        wizard' = EditPinForm([Submitted(wizard) EXCEPT !.pin_to_configure = output,
                                                        !.is_input = FALSE])
    /\ WizardFrame

\* async_step_edit_pin with the submitted name and type
StepEditPin(names) ==
    /\ wizard.revision = "iotix"
    /\ wizard.pc = "form"
    /\ wizard.step = "edit_pin"
    /\ LET w        == Submitted(wizard)
           pin_num  == w.pin_to_configure
           is_input == w.is_input
       IN  IF GetCoverForPin(w.all_pins, pin_num, is_input) # <<>>
               THEN wizard' = PinListForm([w EXCEPT !.user_input = <<>>], is_input)
               ELSE \E name \in names, type \in TypeOptions(is_input) :
                       LET user_input   == [name |-> name, type |-> type]
                           input_config == [pin |-> pin_num, name |-> name,
                                            type |-> type, isInput |-> is_input]
                           stored == [w EXCEPT !.input_config = input_config,
                                               !.user_input = user_input]
                       IN  wizard' =
                               IF LeavesPinAlone(user_input)
                                   THEN PinListForm(stored, is_input)
                               ELSE IF ~is_input
                                   THEN SavePinConfig(stored, input_config)
                               ELSE IF type = "button"
                                   THEN ShowForm(stored, "button_mode", "")
                               ELSE SavePinConfig(
                                        stored, Put(input_config, "buttonMode", "classic"))
    /\ WizardFrame

\* the older wizard's async_step_edit_pin with the submitted name and type:
\* the pin is saved from the step itself
StepEditPinOlder(names) ==
    /\ wizard.revision = "iotix_adam"
    /\ wizard.pc = "form"
    /\ wizard.step = "edit_pin"
    /\ \E name \in names, type \in OlderTypeOptions(wizard.is_input) :
        LET user_input == [name |-> name, type |-> type]
            w == [Submitted(wizard) EXCEPT !.user_input = user_input]
        IN  wizard' =
                IF LeavesPinAlone(user_input)
                    THEN PinListForm(w, w.is_input)
                    ELSE Await(w, "older_pin_configure",
                               Request("POST", "/api/pin/configure",
                                       [pin |-> w.pin_to_configure, type |-> type,
                                        name |-> name]))
    /\ WizardFrame

\* the older wizard's pin-configure request is answered: on 200 the pin data
\* is fetched again and the entry reloaded; the list is shown in every case
EditPinOlderReturns(responses) ==
    /\ wizard.pc = "older_pin_configure"
    /\ \E r \in responses :
        wizard' = IF r.kind = "http" /\ r.status = 200
                      THEN BeginFetchPinData(Answered(wizard, "/api/pin/configure", r),
                                             "older_save_pin")
                      ELSE PinListForm(Answered(wizard, "/api/pin/configure", r),
                                       wizard.is_input)
    /\ WizardFrame

\* async_step_button_mode with the chosen mode
StepButtonMode ==
    /\ wizard.pc = "form"
    /\ wizard.step = "button_mode"
    /\ \E button_mode \in {"classic", "push"} :
        LET w == [Submitted(wizard) EXCEPT
                     !.input_config = Put(@, "buttonMode", button_mode)]
        IN  wizard' = ShowForm(w, IF button_mode = "classic"
                                      THEN "classic_trigger" ELSE "push_triggers", "")
    /\ WizardFrame

\* async_step_classic_trigger with the chosen output
StepClassicTrigger(outputs) ==
    /\ wizard.pc = "form"
    /\ wizard.step = "classic_trigger"
    /\ \E trigger_output \in outputs \cap OutputOptions(wizard) :
        wizard' = SavePinConfig(Submitted(wizard),
                                Put(wizard.input_config, "trigger_output", trigger_output))
    /\ WizardFrame

\* async_step_push_triggers with the three chosen outputs
StepPushTriggers(outputs) ==
    /\ wizard.pc = "form"
    /\ wizard.step = "push_triggers"
    /\ \E short_press_output \in outputs \cap OutputOptions(wizard),
          long_press_output \in outputs \cap OutputOptions(wizard),
          double_press_output \in outputs \cap OutputOptions(wizard) :
        wizard' = SavePinConfig(
                      Submitted(wizard),
                      Put(Put(Put(Put(Put(wizard.input_config,
                          "short_press_output", short_press_output),
                          "long_press_output", long_press_output),
                          "double_press_output", double_press_output),
                          "longPressDuration", 500),
                          "doublePressTimeframe", 300))
    /\ WizardFrame

\* the status is not looked at: any answer counts as a success
PinConfigureAcceptedWhateverStatus(r) == r.kind = "http"

\* `if resp.status == 200` of _save_pin_config; an exception skips the block
PinConfigureAccepted(r) == r.kind = "http" /\ r.status = 200

\* what _save_pin_config does once its triggers are set: the pin data is
\* fetched, the entry reloaded, the pin list shown
AfterTriggers(w) == BeginFetchPinData(w, "save_pin")

\* _save_pin_config after its POST: on 200 the triggers, the pin data and the
\* reload; on another status or any exception straight back to the pin list
SavePinConfigReturns(responses) ==
    /\ wizard.pc = "pin_configure"
    /\ \E r \in responses :
        LET config_data == wizard.input_config
            w           == Answered(wizard, "/api/pin/configure", r)
        IN  wizard' =
                IF PinConfigureAccepted(r)
                    THEN IF SetsClassicTrigger(config_data)
                             THEN SetTrigger(w, config_data["pin"],
                                             config_data["trigger_output"])
                         ELSE IF SetsPushTriggers(config_data)
                             THEN SetPushTriggers(w, config_data)
                         ELSE AfterTriggers(w)
                    ELSE PinListForm(w, config_data["isInput"])
    /\ WizardFrame

\* _set_trigger after its POST: a failure is logged and nothing else
SetTriggerReturns(responses) ==
    /\ wizard.pc = "trigger_set"
    /\ \E r \in responses :
        LET w == Answered(wizard, "/api/input/trigger/set", r)
        IN  wizard' = IF SetsPushTriggers(w.input_config)
                          THEN SetPushTriggers(w, w.input_config)
                          ELSE AfterTriggers(w)
    /\ WizardFrame

\* _set_push_triggers after its POST: a failure is logged and nothing else
SetPushTriggersReturns(responses) ==
    /\ wizard.pc = "push_trigger_set"
    /\ \E r \in responses :
        wizard' = AfterTriggers(Answered(wizard, "/api/input/trigger/set", r))
    /\ WizardFrame

----------------------------------------------------------------------------
(* The trigger steps of the older wizard (iotix_adam) *)

\* the pins of the cached pin list that have one of the types
PinsOfType(all_pins, types) ==
    {i \in 0..15 : \E j \in 1..Len(all_pins) :
        Get(all_pins[j], "pin", None) = i /\ Get(all_pins[j], "type", "") \in types}

\* async_step_configure_triggers with the chosen input
StepConfigureTriggers ==
    /\ wizard.pc = "form"
    /\ wizard.step = "configure_triggers"
    /\ \E input \in PinsOfType(wizard.all_pins, {"binary_sensor"}) :
        wizard' = ShowForm([Submitted(wizard) EXCEPT !.pin_to_configure = input,
                                                     !.is_input = TRUE],
                           "select_trigger_output", "")
    /\ WizardFrame

\* async_step_select_trigger_output with the chosen output: nothing is sent
\* for "None", otherwise the trigger is set
StepSelectTriggerOutput ==
    /\ wizard.pc = "form"
    /\ wizard.step = "select_trigger_output"
    /\ \E output \in {NoTrigger} \cup PinsOfType(wizard.all_pins, {"light", "switch"}) :
        LET w == Submitted(wizard)
        IN  wizard' =
                IF output = NoTrigger
                    THEN ShowForm(w, "configure_triggers", "")
                    ELSE Await(w, "select_trigger_set",
                               Request("POST", "/api/input/trigger/set",
                                       [inputPin  |-> w.pin_to_configure,
                                        outputPin |-> output]))
    /\ WizardFrame

\* the trigger request of the older wizard is answered: a reload on 200
SelectTriggerOutputReturns(responses) ==
    /\ wizard.pc = "select_trigger_set"
    /\ \E r \in responses :
        wizard' = ShowForm([wizard EXCEPT !.reloads =
                               IF r.kind = "http" /\ r.status = 200 THEN @ + 1 ELSE @],
                           "configure_triggers", "")
    /\ WizardFrame

----------------------------------------------------------------------------
(* The wizard's relay-module steps.  An address is entered as a string,    *)
(* here the sequence of its characters.                                    *)

\* the value of a character as a digit, -1 when it is none
DigitValue(c) ==
    CASE c = "0" -> 0 [] c = "1" -> 1 [] c = "2" -> 2 [] c = "3" -> 3 [] c = "4" -> 4
      [] c = "5" -> 5 [] c = "6" -> 6 [] c = "7" -> 7 [] c = "8" -> 8 [] c = "9" -> 9
      [] c \in {"a", "A"} -> 10 [] c \in {"b", "B"} -> 11 [] c \in {"c", "C"} -> 12
      [] c \in {"d", "D"} -> 13 [] c \in {"e", "E"} -> 14 [] c \in {"f", "F"} -> 15
      [] OTHER -> -1

RECURSIVE ParseDigits(_, _, _)
\* the number written by the digits in the base, -1 when a character is no
\* digit of the base
ParseDigits(chars, base, acc) ==
    IF chars = <<>> THEN acc
    ELSE LET d == DigitValue(Head(chars))
         IN  IF d < 0 \/ d >= base THEN -1
             ELSE ParseDigits(Tail(chars), base, acc * base + d)

HasHexPrefix(chars) == Len(chars) >= 2 /\ chars[1] = "0" /\ chars[2] \in {"x", "X"}

\* Python's int(s, base) on a string of an optional "-", for base 16 an
\* optional 0x, and digits; ok is FALSE for a ValueError
PyInt(chars, base) ==
    LET negative == chars # <<>> /\ Head(chars) = "-"
        unsigned == IF negative THEN Tail(chars) ELSE chars
        digits   == IF base = 16 /\ HasHexPrefix(unsigned)
                        THEN SubSeq(unsigned, 3, Len(unsigned)) ELSE unsigned
        value    == ParseDigits(digits, base, 0)
    IN  IF digits = <<>> \/ value < 0 THEN [ok |-> FALSE, value |-> 0]
        ELSE [ok |-> TRUE, value |-> IF negative THEN 0 - value ELSE value]

\* every number is read as decimal
ParseAddressAsDecimal(address_str) ==
    PyInt(IF HasHexPrefix(address_str)
              THEN SubSeq(address_str, 3, Len(address_str)) ELSE address_str, 10)

\* `int(address_str, 16)` for a string that starts with 0x or 0X,
\* `int(address_str)` otherwise
ParseAddress(address_str) ==
    IF HasHexPrefix(address_str) THEN PyInt(address_str, 16) ELSE PyInt(address_str, 10)

\* `next((m for m in xr8_modules if m.get("id") == module_id), None)`: the
\* matching modules, <<>> for None
FindModule(modules, module_id) ==
    SelectSeq(modules, LAMBDA m : Get(m, "id", None) = module_id)

\* `not module or not module.get("configured", False)`
NotConfigured(modules, module_id) ==
    LET found == FindModule(modules, module_id)
    IN  found = <<>> \/ ~Get(Head(found), "configured", FALSE)

\* the address belongs to a configured module with another id
AddressInUse(modules, address, module_id) ==
    \E i \in 1..Len(modules) :
        /\ Get(modules[i], "configured", FALSE)
        /\ Get(modules[i], "address", None) = address
        /\ Get(modules[i], "id", None) # module_id

\* the error of the address form, "" when the address is accepted
AddressErrors(address_str, modules, module_id) ==
    LET parsed == ParseAddress(address_str)
    IN  IF ~parsed.ok THEN "invalid_address_format"
        ELSE IF parsed.value < 32 \/ parsed.value > 39 THEN "invalid_address_range"
        ELSE IF AddressInUse(modules, parsed.value, module_id) THEN "address_in_use"
        ELSE ""

EditAction(module_id)   == "edit_" \o ToString(module_id)
DeleteAction(module_id) == "delete_" \o ToString(module_id)

\* the choices the form of async_step_configure_xr8 offers
OfferedXR8Actions(modules) ==
    LET configured == {i \in 1..Len(modules) : Get(modules[i], "configured", FALSE)}
    IN  {"back"}
            \cup (IF Cardinality(configured) < 8 THEN {"add_module"} ELSE {})
            \cup {EditAction(modules[i]["id"]) : i \in configured}
            \cup {DeleteAction(modules[i]["id"]) : i \in configured}

\* async_step_configure_xr8 is entered: it awaits coordinator.async_refresh
\* first; `ret` keeps the submitted action, "" without one
EnterConfigureXR8(w, action) ==
    [w EXCEPT !.step = "configure_xr8", !.pc = "xr8_refresh", !.ret = action]

\* async_step_edit_xr8_module and async_step_delete_xr8_module without user
\* input
ModuleForm(w, modules, step_id) ==
    IF NotConfigured(modules, w.cover_to_configure)
        THEN EnterConfigureXR8(w, "") ELSE ShowForm(w, step_id, "")

\* async_step_configure_xr8 once the refresh has returned
AfterXR8Refresh(w, modules) ==
    LET action == w.ret
        free   == {i \in 0..7 : NotConfigured(modules, i)}
    IN  IF action = ""
            THEN [ShowForm(w, "configure_xr8", "") EXCEPT
                     !.options = OfferedXR8Actions(modules)]
        ELSE IF action = "back" THEN BeginFetchPinData(w, "main_menu")
        ELSE IF action = "add_module"
            THEN IF free # {}
                     THEN ShowForm([w EXCEPT !.cover_to_configure =
                                       CHOOSE i \in free : \A j \in free : i <= j],
                                   "add_xr8_module", "")
                     ELSE EnterConfigureXR8(w, "")
        ELSE IF \E i \in 0..7 : action = EditAction(i)
            THEN ModuleForm([w EXCEPT !.cover_to_configure =
                                CHOOSE i \in 0..7 : action = EditAction(i)],
                            modules, "edit_xr8_module")
        ELSE ModuleForm([w EXCEPT !.cover_to_configure =
                            CHOOSE i \in 0..7 : action = DeleteAction(i)],
                        modules, "delete_xr8_module")

\* async_step_configure_xr8 with the chosen action
StepConfigureXR8(actions) ==
    /\ wizard.pc = "form"
    /\ wizard.step = "configure_xr8"
    /\ \E action \in actions \cap wizard.options :
        wizard' = EnterConfigureXR8(Submitted(wizard), action)
    /\ WizardFrame

\* coordinator.async_refresh() runs a cycle for the wizard
WizardRefreshStarts ==
    /\ wizard.pc = "xr8_refresh"
    /\ pc = "idle"
    /\ wizard' = [wizard EXCEPT !.pc = "xr8_refreshing"]
    /\ pc' = "info"
    /\ locals' = EmptyLocals
    /\ recv' = EmptyRecv
    /\ outcome' = "running"
    /\ refresh_requested' = FALSE
    /\ dispatched' = NoDispatch
    /\ UNCHANGED <<data, last_update_success, button_event_listeners, registrations, cmd,
                   flow, entities>>

\* the cycle has ended and async_step_configure_xr8 goes on
WizardRefreshReturns ==
    /\ wizard.pc = "xr8_refreshing"
    /\ pc = "idle"
    /\ wizard' = AfterXR8Refresh(wizard, Get(data, "xr8_modules", <<>>))
    /\ WizardFrame

\* the request of coordinator.async_configure_xr8_module, made for a step
ConfigureXR8(w, label, address, configured, relay_names) ==
    Await(w, label,
          Request("POST", "/api/xr8/configure",
                  ConfigureXR8Payload(w.cover_to_configure, address, configured,
                                      relay_names)))

\* async_step_add_xr8_module with the entered address and relay names
StepAddXR8Module(addresses, relay_names_set) ==
    /\ wizard.pc = "form"
    /\ wizard.step = "add_xr8_module"
    /\ \E address_str \in addresses, relay_names \in relay_names_set :
        LET w      == [Submitted(wizard) EXCEPT !.user_input = [address |-> address_str]]
            errors == AddressErrors(address_str, Get(data, "xr8_modules", <<>>),
                                    w.cover_to_configure)
        IN  wizard' = IF errors # ""
                          THEN ShowForm(w, "add_xr8_module", errors)
                          ELSE ConfigureXR8(w, "add_xr8_configure",
                                            ParseAddress(address_str).value, TRUE,
                                            relay_names)
    /\ WizardFrame

\* async_step_edit_xr8_module with the entered address and relay names
StepEditXR8Module(addresses, relay_names_set) ==
    /\ wizard.pc = "form"
    /\ wizard.step = "edit_xr8_module"
    /\ \E address_str \in addresses, relay_names \in relay_names_set :
        LET w       == [Submitted(wizard) EXCEPT !.user_input = [address |-> address_str]]
            modules == Get(data, "xr8_modules", <<>>)
            errors  == AddressErrors(address_str, modules, w.cover_to_configure)
        IN  wizard' = IF NotConfigured(modules, w.cover_to_configure)
                          THEN EnterConfigureXR8(w, "")
                      ELSE IF errors # ""
                          THEN ShowForm(w, "edit_xr8_module", errors)
                      ELSE ConfigureXR8(w, "edit_xr8_configure",
                                        ParseAddress(address_str).value, TRUE,
                                        relay_names)
    /\ WizardFrame

\* async_step_delete_xr8_module with the confirmation
StepDeleteXR8Module(confirmations) ==
    /\ wizard.pc = "form"
    /\ wizard.step = "delete_xr8_module"
    /\ \E confirm \in confirmations :
        LET w       == [Submitted(wizard) EXCEPT !.user_input = [confirm |-> confirm]]
            modules == Get(data, "xr8_modules", <<>>)
        IN  wizard' = IF NotConfigured(modules, w.cover_to_configure) \/ ~confirm
                          THEN EnterConfigureXR8(w, "")
                          ELSE ConfigureXR8(w, "delete_xr8_configure",
                                            Get(Head(FindModule(modules,
                                                                w.cover_to_configure)),
                                                "address", 32),
                                            FALSE, <<>>)
    /\ WizardFrame

\* async_configure_xr8_module returns to the step that called it: a reload
\* after a successful add or delete, the form again after a failed add or edit
ConfigureXR8Returns(responses) ==
    /\ wizard.pc \in {"add_xr8_configure", "edit_xr8_configure", "delete_xr8_configure"}
    /\ \E r \in responses :
        LET o       == CoordinatorCommandOutcome(r)
            success == o.result = "True"
            w       == Answered(wizard, "/api/xr8/configure", r)
            reload  == [w EXCEPT !.reloads = @ + 1]
        IN  /\ refresh_requested' = (refresh_requested \/ o.refresh)
            /\ wizard' =
                   CASE wizard.pc = "add_xr8_configure" ->
                            IF success THEN EnterConfigureXR8(reload, "")
                            ELSE ShowForm(w, "add_xr8_module", "cannot_connect")
                     [] wizard.pc = "edit_xr8_configure" ->
                            IF success THEN EnterConfigureXR8(w, "")
                            ELSE ShowForm(w, "edit_xr8_module", "cannot_connect")
                     [] wizard.pc = "delete_xr8_configure" ->
                            EnterConfigureXR8(IF success THEN reload ELSE w, "")
    /\ UNCHANGED <<pc, locals, data, last_update_success, outcome, button_event_listeners,
                   registrations, dispatched, recv, cmd, flow, entities>>

----------------------------------------------------------------------------
(* The entity platforms: async_setup_entry and the available properties *)

\* one created entity; the fields a class does not have are None
Entity(class, pin, cover_id, module_id, relay_id) ==
    [class |-> class, pin |-> pin, cover_id |-> cover_id,
     module_id |-> module_id, relay_id |-> relay_id]

\* no platform has been set up
NoEntities == <<>>

Range(seq) == {seq[i] : i \in 1..Len(seq)}

AllEntities == UNION {Range(entities[platform]) : platform \in DOMAIN entities}

\* one entity of the class for every entry of the pin list with the type
PinEntities(class, pins_config, type) ==
    LET of_type == SelectSeq(pins_config, LAMBDA pin_config : Get(pin_config, "type", "") = type)
    IN  [i \in 1..Len(of_type) |-> Entity(class, of_type[i]["pin"], None, None, None)]

RECURSIVE RelaySwitches(_)
\* the relay switches of switch.async_setup_entry: unconfigured modules skipped
RelaySwitches(modules) ==
    IF modules = <<>> THEN <<>>
    ELSE LET module == Head(modules)
             relays == Get(module, "relays", <<>>)
         IN  (IF ~Get(module, "configured", FALSE)
                  THEN <<>>
                  ELSE [i \in 1..Len(relays) |->
                           Entity("XR8RelaySwitch", None, None,
                                  Get(module, "id", None), Get(relays[i], "id", None))])
                 \o RelaySwitches(Tail(modules))

\* AdamCover.__init__: the entity of a cover entry
CoverEntity(pin_config) ==
    Entity("AdamCover", pin_config["pin"], PinCoverId(pin_config), None, None)

\* the cover entries of the pin list cover.async_setup_entry takes
IsCoverPin(pin_config) == IsCover(pin_config) /\ Get(pin_config, "pin", -1) >= 100

RECURSIVE CoversFromConfig(_, _)
\* the fallback loop over covers_config with its seen_cover_ids
CoversFromConfig(covers_config, seen_cover_ids) ==
    IF covers_config = <<>> THEN <<>>
    ELSE LET cover_config == Head(covers_config)
             cover_id     == Get(cover_config, "coverId", None)
         IN  IF cover_id = None \/ cover_id \in seen_cover_ids
                 THEN CoversFromConfig(Tail(covers_config), seen_cover_ids)
                 ELSE <<Entity("AdamCover", 100 + cover_id, cover_id, None, None)>>
                          \o CoversFromConfig(Tail(covers_config), seen_cover_ids \cup {cover_id})

Covers(pins_config, covers_config) ==
    LET cover_pins == SelectSeq(pins_config, IsCoverPin)
    IN  [i \in 1..Len(cover_pins) |-> CoverEntity(cover_pins[i])]
            \o CoversFromConfig(covers_config,
                                {PinCoverId(cover_pins[i]) : i \in 1..Len(cover_pins)})

IsPushInput(pin_config) ==
    Get(pin_config, "isInput", FALSE) /\ Get(pin_config, "buttonMode", None) = "push"

Events(pins_config) ==
    LET push == SelectSeq(pins_config, IsPushInput)
    IN  [i \in 1..Len(push) |-> Entity("AdamButtonEvent", push[i]["pin"], None, None, None)]

\* the callback an event entity registers
HandleButtonEvent(pin) == "handle_" \o ToString(pin)

RECURSIVE RegisterAll(_, _)
RegisterAll(listeners, created) ==
    IF created = <<>> THEN listeners
    ELSE RegisterAll(RegisterListener(listeners, Head(created).pin,
                                      HandleButtonEvent(Head(created).pin)),
                     Tail(created))

\* what a platform setup leaves alone
SetupFrame ==
    UNCHANGED <<pc, locals, data, last_update_success, outcome, dispatched, recv,
                cmd, refresh_requested, wizard, flow>>

\* a platform is set up once, after the first refresh has published
MaySetUp(platform) == data # NoData /\ platform \notin DOMAIN entities

\* switch.async_setup_entry
SwitchSetupEntry ==
    /\ MaySetUp("switch")
    /\ entities' = Put(entities, "switch",
                       PinEntities("AdamSwitch", Get(data, "pins_config", <<>>), "switch")
                           \o RelaySwitches(Get(data, "xr8_modules", <<>>)))
    /\ UNCHANGED <<button_event_listeners, registrations>>
    /\ SetupFrame

\* light.async_setup_entry
LightSetupEntry ==
    /\ MaySetUp("light")
    /\ entities' = Put(entities, "light",
                       PinEntities("AdamLight", Get(data, "pins_config", <<>>), "light"))
    /\ UNCHANGED <<button_event_listeners, registrations>>
    /\ SetupFrame

\* binary_sensor.async_setup_entry
BinarySensorSetupEntry ==
    /\ MaySetUp("binary_sensor")
    /\ entities' = Put(entities, "binary_sensor",
                       PinEntities("AdamBinarySensor", Get(data, "pins_config", <<>>),
                                   "binary_sensor"))
    /\ UNCHANGED <<button_event_listeners, registrations>>
    /\ SetupFrame

\* cover.async_setup_entry
CoverSetupEntry ==
    /\ MaySetUp("cover")
    /\ entities' = Put(entities, "cover",
                       Covers(Get(data, "pins_config", <<>>), Get(data, "covers_config", <<>>)))
    /\ UNCHANGED <<button_event_listeners, registrations>>
    /\ SetupFrame

\* event.async_setup_entry: every created entity registers its callback
EventSetupEntry ==
    /\ MaySetUp("event")
    /\ LET created == Events(Get(data, "pins_config", <<>>))
       IN  /\ entities' = Put(entities, "event", created)
           /\ button_event_listeners' = RegisterAll(button_event_listeners, created)
           /\ registrations' = registrations \o
                  [i \in 1..Len(created) |->
                      [pin |-> created[i].pin, callback |-> HandleButtonEvent(created[i].pin)]]
    /\ SetupFrame

\* CoordinatorEntity.available, the super().available of the entities
CoordinatorEntityAvailable == last_update_success

\* `key in d` for the pin number of an entity and a dict keyed by state key:
\* an int equals none of the strings in_N and out_N
PinKey(pin) == ToString(pin)

\* AdamEntity.available
AdamEntityAvailable(e) ==
    /\ CoordinatorEntityAvailable
    /\ PinKey(e.pin) \in DOMAIN Get(data, "pin_states", <<>>)

\* AdamCover.available
AdamCoverAvailable(e) ==
    IF ~last_update_success THEN FALSE
    ELSE LET pins_config   == Get(data, "pins_config", <<>>)
             covers_config == Get(data, "covers_config", <<>>)
             has_cover_in_pins ==
                 \E i \in 1..Len(pins_config) :
                     IsCover(pins_config[i]) /\ PinCoverId(pins_config[i]) = e.cover_id
         IN  \/ has_cover_in_pins
             \/ \E i \in 1..Len(covers_config) :
                    Get(covers_config[i], "coverId", None) = e.cover_id

\* the module's configured flag is not looked at
XR8RelaySwitchAvailableIgnoringConfigured(e) ==
    /\ CoordinatorEntityAvailable
    /\ \E i \in 1..Len(Get(data, "xr8_modules", <<>>)) :
           Get(data.xr8_modules[i], "id", None) = e.module_id

\* XR8RelaySwitch.available
XR8RelaySwitchAvailable(e) ==
    IF ~CoordinatorEntityAvailable THEN FALSE
    ELSE \E i \in 1..Len(Get(data, "xr8_modules", <<>>)) :
             /\ Get(data.xr8_modules[i], "id", None) = e.module_id
             /\ Get(data.xr8_modules[i], "configured", FALSE)

\* _get_pin_config of the entity: the entries of the snapshot's pin list
\* with the entity's pin; the first is the result, <<>> stands for None
GetPinConfig(e) ==
    SelectSeq(Get(data, "pins_config", <<>>),
              LAMBDA pin_config : Get(pin_config, "pin", None) = e.pin)

\* AdamButtonEvent.available
AdamButtonEventAvailable(e) ==
    LET pin_config == GetPinConfig(e)
    IN  IF pin_config = <<>> THEN FALSE
        ELSE IsPushInput(Head(pin_config))

\* the available property of an entity
Available(e) ==
    CASE e.class = "AdamCover"       -> AdamCoverAvailable(e)
      [] e.class = "XR8RelaySwitch"  -> XR8RelaySwitchAvailable(e)
      [] e.class = "AdamButtonEvent" -> AdamButtonEventAvailable(e)
      [] OTHER                       -> AdamEntityAvailable(e)

----------------------------------------------------------------------------
(* The polling cycle of the older coordinator: src/coordinator.py *)

\* pin_states[pin]: the key is the pin number alone
OlderStateKey(pin_config) == PinKey(pin_config["pin"])

\* the dict the older _async_update_data returns
OlderSnapshot(l) ==
    [device_info |-> l.device_info,
     pins_config |-> l.raw_pins_config,
     pin_states  |-> l.pin_states]

\* what a step of the older cycle leaves alone
OlderCycleFrame ==
    UNCHANGED <<button_event_listeners, registrations, dispatched, cmd, refresh_requested,
                wizard, flow, entities>>

\* the older cycle returns: the coordinator replaces its data
OlderReturn(l) ==
    /\ data' = OlderSnapshot(l)
    /\ locals' = EmptyLocals
    /\ pc' = "idle"
    /\ outcome' = "returned"
    /\ last_update_success' = TRUE

OlderStartCycle ==
    /\ pc = "idle"
    /\ pc' = "old_info"
    /\ locals' = EmptyLocals
    /\ recv' = EmptyRecv
    /\ outcome' = "running"
    /\ UNCHANGED <<data, last_update_success>>
    /\ OlderCycleFrame

OlderFetchInfo(responses) ==
    /\ pc = "old_info"
    /\ \E r \in responses :
        /\ recv' = [recv EXCEPT !.info = Received(r)]
        /\ IF FatalFailure(r)
               THEN RaiseUpdateFailed
               ELSE /\ locals' = [locals EXCEPT !.device_info = r.body]
                    /\ pc' = "old_pins_config"
                    /\ UNCHANGED <<data, last_update_success, outcome>>
    /\ OlderCycleFrame

\* the pin-config response; without pins the cycle returns at once
OlderFetchPinsConfig(responses) ==
    /\ pc = "old_pins_config"
    /\ \E r \in responses :
        /\ recv' = [recv EXCEPT !.pins_config = Received(r)]
        /\ IF FatalFailure(r)
               THEN RaiseUpdateFailed
               ELSE LET pins == Get(r.body, "pins", <<>>)
                        l    == [locals EXCEPT !.raw_pins_config = pins, !.i = 1]
                    IN  IF pins = <<>>
                            THEN OlderReturn(l)
                            ELSE /\ locals' = l
                                 /\ pc' = "old_pin_state"
                                 /\ UNCHANGED <<data, last_update_success, outcome>>
    /\ OlderCycleFrame

\* the answers of the older loop are remembered by entry of the pin list
EntryKey(i) == "entry_" \o ToString(i)

\* one iteration of the older state loop: every entry is requested
OlderFetchPinState(responses) ==
    /\ pc = "old_pin_state"
    /\ \E r \in responses :
        LET pin_config == locals.raw_pins_config[locals.i]
            state_key  == OlderStateKey(pin_config)
            l == [locals EXCEPT !.pin_states = IF SoftOk(r) THEN Put(@, state_key, r.body) ELSE @,
                                !.i = @ + 1]
        IN  /\ recv' = [recv EXCEPT !.pin_state = Put(@, EntryKey(locals.i), Received(r))]
            /\ IF SoftEscapes(r)
                   THEN RaiseUpdateFailed
                   ELSE IF locals.i < Len(locals.raw_pins_config)
                            THEN /\ locals' = l
                                 /\ pc' = "old_pin_state"
                                 /\ UNCHANGED <<data, last_update_success, outcome>>
                            ELSE OlderReturn(l)
    /\ OlderCycleFrame

----------------------------------------------------------------------------
(* The config flow: AdamConfigFlow *)

MaxFlowRequests == 2   \* requests one flow makes (the user form may be resubmitted)

NoResult == [type |-> "", reason |-> "", step_id |-> "", errors |-> "", data |-> <<>>]

\* AdamConfigFlow.__init__; requests and info (the body of the last 200
\* answer to /api/info, <<>> without one) are kept for the claims
NoFlow ==
    [source |-> "", pc |-> "none", discovery |-> <<>>, host |-> "", mac |-> "", name |-> "",
     requests |-> <<>>, info |-> <<>>, result |-> NoResult]

Abort(f, reason) ==
    [f EXCEPT !.pc = "done", !.result = [NoResult EXCEPT !.type = "abort", !.reason = reason]]

FlowForm(f, step_id, errors) ==
    [f EXCEPT !.pc = "form",
              !.result = [NoResult EXCEPT !.type = "form", !.step_id = step_id,
                                          !.errors = errors]]

CreateEntry(f, host, mac, name) ==
    [f EXCEPT !.pc = "done",
              !.result = [NoResult EXCEPT !.type = "create_entry",
                                          !.data = [host |-> host, mac |-> mac, name |-> name]]]

GetInfo(f, host, label) ==
    [f EXCEPT !.pc = label, !.host = host,
              !.requests = Append(@, [host |-> host, path |-> "/api/info"])]

\* only the model is compared
IsAdamControllerByModelOnly(info) == Get(info, "model", "") = "Adam"

\* the negation of `info.get("model") != "Adam" or info.get("manufacturer") != "IoTiX"`
IsAdamController(info) ==
    Get(info, "model", "") = "Adam" /\ Get(info, "manufacturer", "") = "IoTiX"

\* what the steps of the config flow leave alone
FlowFrame ==
    UNCHANGED <<pc, locals, data, last_update_success, outcome, button_event_listeners,
                registrations, dispatched, recv, cmd, refresh_requested, wizard, entities>>

\* the flow object has finished and another one is constructed
ConfigFlowInit ==
    /\ flow.pc = "done"
    /\ flow' = NoFlow
    /\ FlowFrame

\* async_step_zeroconf up to its request; `configured` are the unique ids
\* that already have an entry
StepZeroconf(discoveries, configured) ==
    /\ flow.pc = "none"
    /\ \E discovery_info \in discoveries :
        LET mac   == Get(discovery_info.properties, "mac", "")
            found == [flow EXCEPT !.source = "zeroconf", !.discovery = discovery_info]
        IN  flow' = IF mac = "" THEN Abort(found, "no_mac")
                    ELSE IF mac \in configured THEN Abort(found, "already_configured")
                    ELSE GetInfo([found EXCEPT !.mac = mac], discovery_info.host, "zeroconf_info")
    /\ FlowFrame

\* the answer to the request of async_step_zeroconf
ZeroconfInfoReturns(responses) ==
    /\ flow.pc = "zeroconf_info"
    /\ \E r \in responses :
        flow' =
            IF r.kind # "http" THEN Abort(flow, "cannot_connect")
            ELSE IF r.status # 200 THEN [flow EXCEPT !.pc = "done"]
            ELSE LET info == r.body
                     got  == [flow EXCEPT !.info = info]
                 IN  IF ~IsAdamController(info) THEN Abort(got, "not_adam_controller")
                     ELSE FlowForm([got EXCEPT !.name = Get(info, "name", "IoTiX")],
                                   "discovery_confirm", "")
    /\ FlowFrame

\* async_step_discovery_confirm with the user's confirmation
StepDiscoveryConfirm ==
    /\ flow.pc = "form"
    /\ flow.result.step_id = "discovery_confirm"
    /\ flow' = CreateEntry(flow, flow.host, flow.mac, flow.name)
    /\ FlowFrame

\* async_step_user without input: the form
StepUserForm ==
    /\ flow.pc = "none"
    /\ flow' = FlowForm([flow EXCEPT !.source = "user"], "user", "")
    /\ FlowFrame

\* async_step_user with input, up to its request
StepUser(hosts) ==
    /\ flow.pc = "form"
    /\ flow.result.step_id = "user"
    /\ Len(flow.requests) < MaxFlowRequests
    /\ \E host \in hosts : flow' = GetInfo(flow, host, "user_info")
    /\ FlowFrame

\* the answer to the request of async_step_user
UserInfoReturns(responses, configured) ==
    /\ flow.pc = "user_info"
    /\ \E r \in responses :
        flow' =
            IF r.kind # "http" \/ r.status # 200 THEN FlowForm(flow, "user", "cannot_connect")
            ELSE LET info == r.body
                     got  == [flow EXCEPT !.info = info]
                     mac  == Get(info, "mac", "")
                 IN  IF ~IsAdamController(info) THEN FlowForm(got, "user", "not_adam_controller")
                     ELSE IF mac \in configured THEN Abort(got, "already_configured")
                     ELSE CreateEntry(got, flow.host, mac, Get(info, "name", "IoTiX"))
    /\ FlowFrame

----------------------------------------------------------------------------
(* What the controller answers *)

InfoBody ==
    [name |-> "Adam", model |-> "Adam", manufacturer |-> "IoTiX",
     mac |-> "AA:BB:CC:DD:EE:FF", firmware_version |-> "1.0.0"]

\* entries of /api/pins/config
OutPin3 == [pin |-> 3, type |-> "light", name |-> "Lamp", isInput |-> FALSE]
InPin3  == [pin |-> 3, type |-> "binary_sensor", name |-> "Button"]
CoverPin5 == [pin |-> 5, type |-> "cover", name |-> "Awning", isInput |-> FALSE]
CoverPin101 == [pin |-> 101, type |-> "cover", name |-> "Blind"]
CoverPin102 ==
    [pin |-> 102, type |-> "cover", name |-> "Shutter", isInput |-> FALSE, coverId |-> 2,
     inputUpPin |-> 0, inputDownPin |-> 1, outputUpPin |-> 0, outputDownPin |-> 1,
     upTimeSec |-> 10, downTimeSec |-> 10, interlock |-> TRUE]

\* entries of /api/covers/config
Cover0 == [coverId |-> 0]
Cover1 ==
    [coverId |-> 1, name |-> "Kitchen", inputUpPin |-> 2, inputDownPin |-> 3,
     outputUpPin |-> 2, outputDownPin |-> 3, upTimeSec |-> 20, downTimeSec |-> 25,
     interlock |-> FALSE, moving |-> TRUE, direction |-> "up"]
Cover2 ==
    [coverId |-> 2, name |-> "Other", inputUpPin |-> 4, inputDownPin |-> 5,
     outputUpPin |-> 4, outputDownPin |-> 5, upTimeSec |-> 30, downTimeSec |-> 30,
     interlock |-> FALSE]
CoverNoId == [name |-> "Unnumbered"]

ShortPress5 == [inputPin |-> 5, eventType |-> "short_press"]
LongPress6  == [inputPin |-> 6, eventType |-> "long_press"]

PinStateOn == [state |-> TRUE, brightness |-> 128]

CoverState1 == [coverId |-> 1, moving |-> TRUE, direction |-> "up"]

Trigger3 == [inputPin |-> 3, outputPin |-> 3]

Module0 ==
    [id |-> 0, address |-> 32, configured |-> TRUE,
     relays |-> <<[id |-> 0, name |-> "Relay 1", state |-> FALSE]>>]

PinsBodies(lists)   == {[pins |-> l] : l \in lists}
CoversBodies(lists) == {[covers |-> l] : l \in lists}
EventsBodies(lists) == {[events |-> l] : l \in lists}

\* the polling specification: two pin lists, every request may fail
PollPinLists   == {<<OutPin3, InPin3>>, <<CoverPin102>>}
PollCoverLists == {<<Cover1>>}
PollEventLists == {<<ShortPress5>>}

\* the merge specification: every pin list and covers list up to the bounds
PinEntries    == {OutPin3, CoverPin5, CoverPin101, CoverPin102}
CoverEntries  == {Cover0, Cover1, Cover2, CoverNoId}
MergePinLists   == {l \in SeqsUpTo(PinEntries, MaxPins) : Distinct(l)}
MergeCoverLists == SeqsUpTo(CoverEntries, MaxCovers)

\* the dispatch specification: every event list and registry up to the bounds
ListenerPins   == {5, 6}
Callbacks      == {"cb1", "cb2"}
MayRaise       == {"cb1"}
DispatchEventLists == SeqsUpTo({ShortPress5, LongPress6}, MaxEvents)

\* the wizard: entries of /api/pins/config and /api/pins/available
Input0  == [pin |-> 0, type |-> "binary_sensor", name |-> "Button", isInput |-> TRUE]
Input2  == [pin |-> 2, type |-> "binary_sensor", name |-> "Door", isInput |-> TRUE]
Cover0Pin100 ==
    [pin |-> 100, type |-> "cover", name |-> "Blind", isInput |-> FALSE, coverId |-> 0,
     inputUpPin |-> 0, inputDownPin |-> 1, outputUpPin |-> 0, outputDownPin |-> 1,
     upTimeSec |-> 10, downTimeSec |-> 10, interlock |-> FALSE]

AvailableIn(pin)  == [pin |-> pin, isInput |-> TRUE]
AvailableOut(pin) == [pin |-> pin, isInput |-> FALSE, label |-> "Relay"]

WizardPinLists == {<<Input2, OutPin3>>, <<Input0, OutPin3, Cover0Pin100>>}
AvailableLists ==
    {<<AvailableIn(0), AvailableIn(1), AvailableOut(0), AvailableOut(1)>>,
     <<AvailableIn(0), AvailableOut(0), AvailableOut(1)>>,
     <<AvailableIn(0), AvailableIn(1), AvailableOut(1)>>}
AvailableBodies(lists) == {[pins |-> l] : l \in lists}

\* the timer values entered for a cover
CoverTimes == {-5, 0, 1, 20}

InfoOk        == {InfoBody}
PinStateOk    == {PinStateOn}
CoversStateOk == {[covers |-> <<CoverState1>>]}
TriggersOk    == {[triggers |-> <<Trigger3>>]}
XR8Ok         == {[modules |-> <<Module0>>]}
WriteOk       == {[ok |-> TRUE]}

\* the entity platforms: a push-button input, a switch, relay modules
PushInput4 ==
    [pin |-> 4, type |-> "binary_sensor", name |-> "Push", isInput |-> TRUE,
     buttonMode |-> "push"]
SwitchPin1 == [pin |-> 1, type |-> "switch", name |-> "Pump", isInput |-> FALSE]
Module0Reserved == [Module0 EXCEPT !.configured = FALSE]
Module1Unconfigured ==
    [id |-> 1, address |-> 33, configured |-> FALSE,
     relays |-> <<[id |-> 0, name |-> "Relay 1", state |-> FALSE]>>]
ModuleNoFlag ==
    [id |-> 2, address |-> 34,
     relays |-> <<[id |-> 0, name |-> "Relay 1", state |-> TRUE]>>]

EntityPinLists    == {<<PushInput4, SwitchPin1, OutPin3>>, <<SwitchPin1, CoverPin102>>}
EntityModuleLists == {<<Module0, Module1Unconfigured>>, <<Module0Reserved, ModuleNoFlag>>}
ModulesBodies(lists) == {[modules |-> l] : l \in lists}

\* the config flow: discovery payloads and answers of /api/info
WithMac    == [host |-> "10.0.0.5", properties |-> [mac |-> "AA:BB:CC:DD:EE:FF"]]
KnownMac   == [host |-> "10.0.0.6", properties |-> [mac |-> "11:22:33:44:55:66"]]
WithoutMac == [host |-> "10.0.0.7", properties |-> [model |-> "Adam"]]
EmptyMac   == [host |-> "10.0.0.9", properties |-> [mac |-> ""]]
Discoveries == {WithMac, KnownMac, WithoutMac, EmptyMac}
Configured  == {"11:22:33:44:55:66"}
FlowHosts   == {"10.0.0.5", "10.0.0.6", "10.0.0.8"}
OtherModel        == [InfoBody EXCEPT !.model = "Eve"]
OtherManufacturer == [InfoBody EXCEPT !.manufacturer = "Acme"]
NoIdentity        == [name |-> "Adam"]
KnownInfo         == [InfoBody EXCEPT !.mac = "11:22:33:44:55:66"]
FlowInfoBodies == {InfoBody, OtherModel, OtherManufacturer, NoIdentity, KnownInfo}

----------------------------------------------------------------------------
(* Specifications *)

Init ==
    /\ pc = "idle"
    /\ locals = EmptyLocals
    /\ data = NoData
    /\ last_update_success = TRUE
    /\ outcome = "none"
    /\ button_event_listeners = <<>>
    /\ registrations = <<>>
    /\ dispatched = NoDispatch
    /\ recv = EmptyRecv
    /\ cmd = NoCommand
    /\ refresh_requested = FALSE
    /\ wizard = NoWizard
    /\ flow = NoFlow
    /\ entities = NoEntities

\* the polling cycle under every combination of request failures
Next ==
    \/ StartCycle
    \/ FetchInfo(Responses(InfoOk, <<>>))
    \/ FetchPinsConfig(Responses(PinsBodies(PollPinLists), <<>>))
    \/ FetchCoversConfig(Responses(CoversBodies(PollCoverLists), <<>>))
    \/ FetchPinState(Responses(PinStateOk, <<>>))
    \/ FetchCoversState(Responses(CoversStateOk, <<>>))
    \/ FetchTriggers(Responses(TriggersOk, <<>>))
    \/ FetchButtonEvents(Responses(EventsBodies(PollEventLists), <<>>), {})
    \/ FetchXR8Modules(Responses(XR8Ok, <<>>))

Spec == Init /\ [][Next]_vars

\* one cycle over every pair of pin list and covers list
InitMerge ==
    /\ pc = "info"
    /\ locals = EmptyLocals
    /\ data = NoData
    /\ last_update_success = TRUE
    /\ outcome = "running"
    /\ button_event_listeners = <<>>
    /\ registrations = <<>>
    /\ dispatched = NoDispatch
    /\ recv = EmptyRecv
    /\ cmd = NoCommand
    /\ refresh_requested = FALSE
    /\ wizard = NoWizard
    /\ flow = NoFlow
    /\ entities = NoEntities

NextMerge ==
    \/ FetchInfo(OkResponses(InfoOk))
    \/ FetchPinsConfig(OkResponses(PinsBodies(MergePinLists)))
    \/ FetchCoversConfig(Responses(CoversBodies(MergeCoverLists), <<>>))
    \/ FetchPinState(OkResponses(PinStateOk))
    \/ FetchCoversState(OkResponses(CoversStateOk))
    \/ FetchTriggers(OkResponses(TriggersOk))
    \/ FetchButtonEvents(OkResponses(EventsBodies({<<>>})), {})
    \/ FetchXR8Modules(OkResponses(XR8Ok))

SpecMerge == InitMerge /\ [][NextMerge]_vars

\* registrations and cycles over every event list
NextDispatch ==
    \/ Register(ListenerPins, Callbacks)
    \/ StartCycle
    \/ FetchInfo(OkResponses(InfoOk))
    \/ FetchPinsConfig(OkResponses(PinsBodies({<<>>})))
    \/ FetchCoversConfig(OkResponses(CoversBodies({<<>>})))
    \/ FetchCoversState(OkResponses(CoversStateOk))
    \/ FetchTriggers(OkResponses(TriggersOk))
    \/ FetchButtonEvents(Responses(EventsBodies(DispatchEventLists), <<>>), MayRaise)
    \/ FetchXR8Modules(OkResponses(XR8Ok))

SpecDispatch == Init /\ [][NextDispatch]_vars

\* relay names as given to async_configure_xr8_module: none, eight, seven, nine
RelayName(n) == "Relay " \o ToString(n)
CommandRelayNames ==
    {<<>>, [n \in 1..8 |-> RelayName(n)], [n \in 1..7 |-> RelayName(n)],
     [n \in 1..9 |-> RelayName(n)]}
CommandModuleIds  == {0, 7}

\* commands, each followed by the cycles it asks for
NextCommands ==
    \/ AsyncSetPinState({3}, {<<>>, [brightness |-> 128]})
    \/ AsyncConfigurePin({3})
    \/ AsyncCoverCommand({1})
    \/ AsyncConfigureCover({1}, {0, 20})
    \/ AsyncConfigureXR8Module(CommandModuleIds, CommandRelayNames)
    \/ CoordinatorCommandReturns(Responses(WriteOk, <<>>))
    \/ SetRelayState({0}, {0})
    \/ SetRelayStateReturns(Responses(WriteOk, <<>>))
    \/ StepDeviceName({"Adam"})
    \/ StepDeviceNameReturns(Responses(WriteOk, <<>>))
    \/ StartCycle
    \/ FetchInfo(Responses(InfoOk, <<>>))
    \/ FetchPinsConfig(OkResponses(PinsBodies({<<>>})))
    \/ FetchCoversConfig(OkResponses(CoversBodies({<<>>})))
    \/ FetchCoversState(OkResponses(CoversStateOk))
    \/ FetchTriggers(OkResponses(TriggersOk))
    \/ FetchButtonEvents(OkResponses(EventsBodies({<<>>})), {})
    \/ FetchXR8Modules(OkResponses(XR8Ok))

SpecCommands == Init /\ [][NextCommands]_vars

\* the inputs of the wizard specifications
WriteResponses       == Responses(WriteOk, <<>>)
InfoResponses        == Responses(InfoOk, <<>>)
InfoOkResponses      == OkResponses(InfoOk)
WizardPinsResponses  == OkResponses(PinsBodies(WizardPinLists))
AvailableResponses   == Responses(AvailableBodies(AvailableLists), <<>>)
AvailableOkResponses == OkResponses(AvailableBodies(AvailableLists))
XR8Responses         == Responses(XR8Ok, <<>>)
XR8OkResponses       == OkResponses(XR8Ok)
NewRevision          == {"iotix"}
BothRevisions        == {"iotix", "iotix_adam"}
CoverMenuActions     == {"configure_covers", "done"}
PinMenuActions       == {"configure_inputs", "configure_outputs", "configure_triggers", "done"}
CommandCoverIds      == {1}
CommandCoverTimes    == {0, 20}
WizardCoverIds       == {0, 1}
CoverNames           == {"Blind"}
WizardInputs         == {0, 2}
WizardOutputs        == {1, 3}
PinNames             == {"Lamp"}
ClassicTriggerOutputs == {NoTrigger, 3, 1000}
PushTriggerOutputs    == {NoTrigger, 3}

\* a cover is configured through the coordinator and through the wizard
NextCoverConfigure ==
    \/ AsyncConfigureCover(CommandCoverIds, CommandCoverTimes)
    \/ CoordinatorCommandReturns(WriteResponses)
    \/ WizardOpen(NewRevision)
    \/ StepMainMenu(CoverMenuActions)
    \/ WizardFetchInfo(InfoOkResponses)
    \/ WizardFetchPins(WizardPinsResponses)
    \/ WizardFetchAvailable(AvailableResponses)
    \/ WizardFetchXR8(XR8OkResponses)
    \/ StepConfigureCovers(WizardCoverIds)
    \/ StepEditCover(CoverNames, CoverTimes)
    \/ SaveCoverConfigReturns(WriteResponses)

SpecCoverConfigure == Init /\ [][NextCoverConfigure]_vars

\* pins are configured through both revisions of the wizard
NextWizardPins ==
    \/ WizardOpen(BothRevisions)
    \/ StepMainMenu(PinMenuActions)
    \/ WizardFetchInfo(InfoResponses)
    \/ WizardFetchPins(WizardPinsResponses)
    \/ WizardFetchAvailable(AvailableOkResponses)
    \/ WizardFetchXR8(XR8Responses)
    \/ StepConfigureInputs(WizardInputs)
    \/ StepConfigureOutputs(WizardOutputs)
    \/ StepEditPin(PinNames)
    \/ StepEditPinOlder(PinNames)
    \/ EditPinOlderReturns(WriteResponses)
    \/ StepButtonMode
    \/ StepClassicTrigger(ClassicTriggerOutputs)
    \/ StepPushTriggers(PushTriggerOutputs)
    \/ SavePinConfigReturns(WriteResponses)
    \/ SetTriggerReturns(WriteResponses)
    \/ SetPushTriggersReturns(WriteResponses)
    \/ StepConfigureTriggers
    \/ StepSelectTriggerOutput
    \/ SelectTriggerOutputReturns(WriteResponses)

SpecWizardPins == Init /\ [][NextWizardPins]_vars

FlowInfoResponses == Responses(FlowInfoBodies, <<>>)

\* config flows, one after the other, over every payload and answer
NextConfigFlow ==
    \/ ConfigFlowInit
    \/ StepZeroconf(Discoveries, Configured)
    \/ ZeroconfInfoReturns(FlowInfoResponses)
    \/ StepDiscoveryConfirm
    \/ StepUserForm
    \/ StepUser(FlowHosts)
    \/ UserInfoReturns(FlowInfoResponses, Configured)

SpecConfigFlow == Init /\ [][NextConfigFlow]_vars

\* the platforms set up after a first refresh, and cycles that succeed or fail
NextEntities ==
    \/ StartCycle
    \/ FetchInfo(Responses(InfoOk, <<>>))
    \/ FetchPinsConfig(OkResponses(PinsBodies(EntityPinLists)))
    \/ FetchCoversConfig(OkResponses(CoversBodies(PollCoverLists)))
    \/ FetchPinState(OkResponses(PinStateOk))
    \/ FetchCoversState(OkResponses(CoversStateOk))
    \/ FetchTriggers(OkResponses(TriggersOk))
    \/ FetchButtonEvents(OkResponses(EventsBodies({<<>>})), {})
    \/ FetchXR8Modules(Responses(ModulesBodies(EntityModuleLists), <<>>))
    \/ SwitchSetupEntry
    \/ LightSetupEntry
    \/ CoverSetupEntry
    \/ EventSetupEntry

SpecEntities == Init /\ [][NextEntities]_vars

\* the inputs of the cover specification
CoverPinLists        == {<<CoverPin5>>, <<CoverPin102>>, <<CoverPin101, OutPin3>>, <<>>}
CoverConfigLists     == {<<Cover0>>, <<Cover1, Cover2>>, <<Cover0, Cover0>>}
CoverPinsResponses   == OkResponses(PinsBodies(CoverPinLists))
CoverConfigResponses == Responses(CoversBodies(CoverConfigLists), <<>>)
PinStateOkResponses  == OkResponses(PinStateOk)
CoversStateOkResponses == OkResponses(CoversStateOk)
TriggersOkResponses  == OkResponses(TriggersOk)
NoEventsResponses    == OkResponses(EventsBodies({<<>>}))
NoCallbacks          == {}

\* the cover platform set up after a first refresh, and later cycles
NextCovers ==
    \/ StartCycle
    \/ FetchInfo(InfoResponses)
    \/ FetchPinsConfig(CoverPinsResponses)
    \/ FetchCoversConfig(CoverConfigResponses)
    \/ FetchPinState(PinStateOkResponses)
    \/ FetchCoversState(CoversStateOkResponses)
    \/ FetchTriggers(TriggersOkResponses)
    \/ FetchButtonEvents(NoEventsResponses, NoCallbacks)
    \/ FetchXR8Modules(XR8OkResponses)
    \/ CoverSetupEntry

SpecCovers == Init /\ [][NextCovers]_vars

\* the inputs of the relay-module wizard: addresses as typed, module lists
Address0x20   == <<"0", "x", "2", "0">>
Address0x21   == <<"0", "x", "2", "1">>
Address0X27   == <<"0", "X", "2", "7">>
Address0x28   == <<"0", "x", "2", "8">>
Address0x1f   == <<"0", "x", "1", "f">>
Address32     == <<"3", "2">>
Address20     == <<"2", "0">>
Address40     == <<"4", "0">>
AddressMinus  == <<"-", "3", "3">>
AddressNoHex  == <<"0", "x", "2", "g">>
AddressPrefix == <<"0", "x">>
AddressEmpty  == <<>>
EnteredAddresses ==
    {Address0x20, Address0x21, Address0X27, Address0x28, Address0x1f, Address32, Address20,
     Address40, AddressMinus, AddressNoHex, AddressPrefix, AddressEmpty}
Module1Configured ==
    [id |-> 1, address |-> 33, configured |-> TRUE,
     relays |-> <<[id |-> 0, name |-> "Relay 1", state |-> FALSE]>>]
XR8WizardModuleLists == {<<Module0>>, <<Module0, Module1Configured>>, <<Module0Reserved>>}
XR8WizardResponses   == Responses(ModulesBodies(XR8WizardModuleLists), <<>>)
XR8MenuActions       == {"configure_xr8"}
XR8Actions           == {"back", "add_module", "edit_0", "delete_1"}
EnteredRelayNames    == {[n \in 1..8 |-> "Relay"]}
Confirmations        == BOOLEAN
NoPinsResponses      == OkResponses(PinsBodies({<<>>}))
NoCoversResponses    == OkResponses(CoversBodies({<<>>}))

\* relay modules are added, edited and deleted through the wizard while
\* the coordinator polls
NextXR8Wizard ==
    \/ WizardOpen(NewRevision)
    \/ StepMainMenu(XR8MenuActions)
    \/ WizardFetchInfo(InfoOkResponses)
    \/ WizardFetchPins(NoPinsResponses)
    \/ WizardFetchAvailable(AvailableOkResponses)
    \/ WizardFetchXR8(XR8OkResponses)
    \/ StepConfigureXR8(XR8Actions)
    \/ WizardRefreshStarts
    \/ WizardRefreshReturns
    \/ StepAddXR8Module(EnteredAddresses, EnteredRelayNames)
    \/ StepEditXR8Module(EnteredAddresses, EnteredRelayNames)
    \/ StepDeleteXR8Module(Confirmations)
    \/ ConfigureXR8Returns(WriteResponses)
    \/ StartCycle
    \/ FetchInfo(InfoOkResponses)
    \/ FetchPinsConfig(NoPinsResponses)
    \/ FetchCoversConfig(NoCoversResponses)
    \/ FetchCoversState(CoversStateOkResponses)
    \/ FetchTriggers(TriggersOkResponses)
    \/ FetchButtonEvents(NoEventsResponses, NoCallbacks)
    \/ FetchXR8Modules(XR8WizardResponses)

SpecXR8Wizard == Init /\ [][NextXR8Wizard]_vars

\* every cover id and every relay of every module: one or two dedicated
\* covers, one or two configured modules of eight relays each
CoverIds  == 0..3
ModuleIds == 0..7
RelayIds  == 0..7
CoverOfId(cover_id) == [Cover0 EXCEPT !.coverId = cover_id]
FullModule(module_id) ==
    [id |-> module_id, address |-> 32 + module_id, configured |-> TRUE,
     relays |-> [n \in 1..8 |-> [id |-> n - 1, name |-> RelayName(n), state |-> FALSE]]]
NumberedCoverLists ==
    {<<CoverOfId(c)>> : c \in CoverIds}
        \cup {<<CoverOfId(p[1]), CoverOfId(p[2])>> :
                  p \in {q \in CoverIds \X CoverIds : q[1] # q[2]}}
NumberedModuleLists ==
    {<<FullModule(m)>> : m \in ModuleIds}
        \cup {<<FullModule(m), FullModule(m + 1)>> : m \in ModuleIds \ {7}}
NumberedCoverResponses  == OkResponses(CoversBodies(NumberedCoverLists))
NumberedModuleResponses == Responses(ModulesBodies(NumberedModuleLists), <<>>)

\* the coordinator numbers the dedicated covers while the wizard numbers
\* the relays
NextVirtualPins ==
    \/ StartCycle
    \/ FetchInfo(InfoOkResponses)
    \/ FetchPinsConfig(NoPinsResponses)
    \/ FetchCoversConfig(NumberedCoverResponses)
    \/ FetchCoversState(CoversStateOkResponses)
    \/ FetchTriggers(TriggersOkResponses)
    \/ FetchButtonEvents(NoEventsResponses, NoCallbacks)
    \/ FetchXR8Modules(XR8OkResponses)
    \/ WizardOpen(NewRevision)
    \/ WizardFetchInfo(InfoOkResponses)
    \/ WizardFetchPins(NoPinsResponses)
    \/ WizardFetchAvailable(AvailableOkResponses)
    \/ WizardFetchXR8(NumberedModuleResponses)

SpecVirtualPins == Init /\ [][NextVirtualPins]_vars

\* firmware is installed, with and without a known release, while the
\* coordinator polls
ReleaseUrls       == {"", "https://github.com/releases/firmware.bin"}
DownloadResponses == Responses({<<>>}, <<>>)

NextInstall ==
    \/ AsyncInstall(ReleaseUrls)
    \/ InstallDownloadReturns(DownloadResponses)
    \/ InstallUploadReturns(WriteResponses)
    \/ InstallRefreshes
    \/ StartCycle
    \/ FetchInfo(InfoOkResponses)
    \/ FetchPinsConfig(NoPinsResponses)
    \/ FetchCoversConfig(NoCoversResponses)
    \/ FetchCoversState(CoversStateOkResponses)
    \/ FetchTriggers(TriggersOkResponses)
    \/ FetchButtonEvents(NoEventsResponses, NoCallbacks)
    \/ FetchXR8Modules(XR8OkResponses)

SpecInstall == Init /\ [][NextInstall]_vars

\* the inputs of the ordering specification
OrderPinsResponses   == Responses(PinsBodies({<<OutPin3, CoverPin102, InPin3>>, <<CoverPin101>>}), <<>>)
OrderCoverResponses  == Responses(CoversBodies(PollCoverLists), <<>>)
OrderStateResponses  == Responses(PinStateOk, <<>>)
OrderEventResponses  == Responses(EventsBodies(PollEventLists), <<>>)
OrderListenerPins    == {5}
OrderCallbacks       == {"cb1"}

\* listeners registered, and cycles in which every request may fail
NextOrder ==
    \/ Register(OrderListenerPins, OrderCallbacks)
    \/ StartCycle
    \/ FetchInfo(InfoResponses)
    \/ FetchPinsConfig(OrderPinsResponses)
    \/ FetchCoversConfig(OrderCoverResponses)
    \/ FetchPinState(OrderStateResponses)
    \/ FetchCoversState(CoversStateOkResponses)
    \/ FetchTriggers(TriggersOkResponses)
    \/ FetchButtonEvents(OrderEventResponses, NoCallbacks)
    \/ FetchXR8Modules(XR8Responses)

SpecOrder == Init /\ [][NextOrder]_vars

\* the relay-module request is answered or times out (ClientTimeout(total=10))
SpecOrderLive == SpecOrder /\ WF_vars(FetchXR8Modules(XR8Responses))

\* the inputs of the state-key specification: input 3 next to output 3
PinStateOff          == [state |-> FALSE, brightness |-> 0]
StateKeyPinLists     == {<<OutPin3, InPin3>>, <<InPin3, SwitchPin1>>, <<CoverPin102, OutPin3>>}
StateKeyPinsResponses == OkResponses(PinsBodies(StateKeyPinLists))
BothPinStates        == {PinStateOn, PinStateOff}
PinStateResponses    == Responses(BothPinStates, <<>>)
OneCoverResponses    == OkResponses(CoversBodies(PollCoverLists))

\* the inputs of the pin-state specification: entries whose direction comes
\* from isInput against the type, and a pin from 100 on that is no cover
RelayPin100   == [pin |-> 100, type |-> "switch", name |-> "Relay", isInput |-> FALSE]
SensorOutput4 == [pin |-> 4, type |-> "binary_sensor", name |-> "Feedback", isInput |-> FALSE]
SwitchInput6  == [pin |-> 6, type |-> "switch", name |-> "Toggle", isInput |-> TRUE]
PinStateLists ==
    {<<OutPin3, InPin3>>, <<CoverPin5, SensorOutput4>>, <<RelayPin100, SwitchInput6>>,
     <<CoverPin102, OutPin3>>, <<OutPin3, OutPin3>>}
PinStatePinsResponses == OkResponses(PinsBodies(PinStateLists))

\* cycles over those lists, each state request answered or failing
NextPinStates ==
    \/ StartCycle
    \/ FetchInfo(InfoOkResponses)
    \/ FetchPinsConfig(PinStatePinsResponses)
    \/ FetchCoversConfig(OneCoverResponses)
    \/ FetchPinState(PinStateResponses)
    \/ FetchCoversState(CoversStateOkResponses)
    \/ FetchTriggers(TriggersOkResponses)
    \/ FetchButtonEvents(NoEventsResponses, NoCallbacks)
    \/ FetchXR8Modules(XR8OkResponses)

SpecPinStates == Init /\ [][NextPinStates]_vars

\* cycles of both coordinators over pin lists sharing a pin number
NextStateKeys ==
    \/ StartCycle
    \/ FetchInfo(InfoOkResponses)
    \/ FetchPinsConfig(StateKeyPinsResponses)
    \/ FetchCoversConfig(OneCoverResponses)
    \/ FetchPinState(PinStateResponses)
    \/ FetchCoversState(CoversStateOkResponses)
    \/ FetchTriggers(TriggersOkResponses)
    \/ FetchButtonEvents(NoEventsResponses, NoCallbacks)
    \/ FetchXR8Modules(XR8OkResponses)
    \/ OlderStartCycle
    \/ OlderFetchInfo(InfoResponses)
    \/ OlderFetchPinsConfig(StateKeyPinsResponses)
    \/ OlderFetchPinState(PinStateResponses)

SpecStateKeys == Init /\ [][NextStateKeys]_vars

\* the older coordinator with the pin platforms of its revision
OlderPinLists      == {<<OutPin3, InPin3>>, <<InPin3, SwitchPin1>>, <<OutPin3, Input2>>}
OlderPinsResponses == OkResponses(PinsBodies(OlderPinLists))

NextOlderEntities ==
    \/ OlderStartCycle
    \/ OlderFetchInfo(InfoResponses)
    \/ OlderFetchPinsConfig(OlderPinsResponses)
    \/ OlderFetchPinState(PinStateResponses)
    \/ BinarySensorSetupEntry
    \/ LightSetupEntry

SpecOlderEntities == Init /\ [][NextOlderEntities]_vars

\* cycles with failures next to a command: who writes coordinator.data
NextSnapshot ==
    \/ StartCycle
    \/ FetchInfo(Responses(InfoOk, <<>>))
    \/ FetchPinsConfig(Responses(PinsBodies({<<OutPin3>>}), <<>>))
    \/ FetchCoversConfig(OkResponses(CoversBodies(PollCoverLists)))
    \/ FetchPinState(Responses(PinStateOk, <<>>))
    \/ FetchCoversState(OkResponses(CoversStateOk))
    \/ FetchTriggers(OkResponses(TriggersOk))
    \/ FetchButtonEvents(Responses(EventsBodies(PollEventLists), <<>>), {})
    \/ FetchXR8Modules(Responses(XR8Ok, <<>>))
    \/ AsyncSetPinState({3}, {<<>>})
    \/ CoordinatorCommandReturns(Responses(WriteOk, <<>>))

SpecSnapshot == Init /\ [][NextSnapshot]_vars

----------------------------------------------------------------------------
(* Claims about the polling cycle, checked under Spec *)

FatalFetchFailed == recv.info.st = "fail" \/ recv.pins_config.st = "fail"

\* C1: whenever the info fetch or the pin-config fetch of a cycle has failed
\* (non-200, transport error or timeout), the cycle has ended with
\* UpdateFailed, and the step that ended it left coordinator.data as it was:
\* no snapshot is published.
C1_FatalFailurePublishesNothing ==
    [][FatalFetchFailed' =>
          /\ pc' = "idle"
          /\ outcome' = "UpdateFailed"
          /\ ~last_update_success'
          /\ data' = data]_vars

\* a cycle failed on pin config while a snapshot of an earlier cycle is held
C1_Witness ==
    /\ recv.info.st = "ok"
    /\ recv.pins_config.st = "fail"
    /\ outcome = "UpdateFailed"
    /\ data # NoData

CoreFetched == recv.info.st = "ok" /\ recv.pins_config.st = "ok"

\* the value a soft resource contributes: its list when fetched, else empty
FetchedOrEmpty(received, key) ==
    IF received.st = "ok" THEN Get(received.body, key, <<>>) ELSE <<>>

\* the entries of a pin list whose state the cycle asks for
StatePins(pins_config) ==
    {i \in 1..Len(pins_config) :
        ~(Get(pins_config[i], "type", "") = "cover" \/ pins_config[i]["pin"] >= 100)}

\* C2: once info and pin config are fetched, no failure of another fetch makes
\* the cycle fail; the cycle ends by publishing a snapshot in which every
\* failed resource holds its empty default (empty list, empty mapping, absent
\* pin-state key) and every other resource holds what was fetched.
C2_SoftFailuresStillPublish ==
    CoreFetched =>
        /\ outcome \in {"running", "returned"}
        /\ pc = "idle" =>
            /\ outcome = "returned"
            /\ last_update_success
            /\ data.device_info = recv.info.body
            /\ data.covers_config = FetchedOrEmpty(recv.covers_config, "covers")
            /\ data.pins_config =
                   MergeCovers(recv.pins_config.body["pins"], data.covers_config)
            /\ data.covers_state =
                   CoversStateMap(<<>>, FetchedOrEmpty(recv.covers_state, "covers"))
            /\ data.triggers = FetchedOrEmpty(recv.triggers, "triggers")
            /\ data.button_events = FetchedOrEmpty(recv.button_events, "events")
            /\ data.xr8_modules = FetchedOrEmpty(recv.xr8, "modules")
            /\ \A i \in StatePins(data.pins_config) :
                   StateKey(data.pins_config[i]) \in DOMAIN recv.pin_state
            /\ DOMAIN data.pin_states =
                   {k \in DOMAIN recv.pin_state : recv.pin_state[k].st = "ok"}
            /\ \A k \in DOMAIN data.pin_states : data.pin_states[k] = recv.pin_state[k].body

\* a snapshot published by a cycle in which every soft fetch failed
C2_Witness ==
    /\ pc = "idle"
    /\ CoreFetched
    /\ outcome = "returned"
    /\ recv.covers_config.st = "fail"
    /\ recv.covers_state.st = "fail"
    /\ recv.triggers.st = "fail"
    /\ recv.button_events.st = "fail"
    /\ recv.xr8.st = "fail"
    /\ DOMAIN recv.pin_state # {}
    /\ \A k \in DOMAIN recv.pin_state : recv.pin_state[k].st = "fail"
    /\ data.pin_states = <<>>

\* a snapshot published by a cycle in which some fetches failed and others did not
C2_WitnessMixed ==
    /\ pc = "idle"
    /\ CoreFetched
    /\ recv.covers_config.st = "ok"
    /\ recv.covers_state.st = "fail"
    /\ recv.triggers.st = "ok"
    /\ \E k, m \in DOMAIN recv.pin_state :
           recv.pin_state[k].st = "ok" /\ recv.pin_state[m].st = "fail"

----------------------------------------------------------------------------
(* Claims about the cover merge, checked under SpecMerge *)

Published == pc = "idle" /\ outcome = "returned"

\* the two inputs of the merge a published snapshot was built from
FetchedPins   == recv.pins_config.body["pins"]
FetchedCovers == FetchedOrEmpty(recv.covers_config, "covers")

IsCoverEntry(e) == "type" \in DOMAIN e /\ e["type"] = "cover"

\* the coverId of a cover entry: its coverId field, or for a virtual pin
\* without one, its pin number less 100
EntryCoverIds(e) ==
    IF "coverId" \in DOMAIN e THEN {e["coverId"]}
    ELSE IF e["pin"] >= 100 THEN {e["pin"] - 100}
    ELSE {}

\* the coverIds the pin list has a cover entry for
PinListCoverIds(pins) ==
    UNION {EntryCoverIds(pins[i]) : i \in {j \in 1..Len(pins) : IsCoverEntry(pins[j])}}

\* the coverIds of the pin list's cover entries at virtual pins (>= 100)
VirtualCoverIds(pins) ==
    UNION {EntryCoverIds(pins[i]) :
              i \in {j \in 1..Len(pins) : IsCoverEntry(pins[j]) /\ pins[j]["pin"] >= 100}}

DedicatedCoverIds(covers) ==
    {covers[i]["coverId"] : i \in {j \in 1..Len(covers) : "coverId" \in DOMAIN covers[j]}}

\* the entries of the merged list that the pin list did not supply
SynthesizedFor(merged, pins, cover_id) ==
    {j \in (Len(pins) + 1)..Len(merged) :
        "coverId" \in DOMAIN merged[j] /\ merged[j]["coverId"] = cover_id}

\* C3: pin list wins. In every published snapshot the merged pin
\* configuration starts with the pin list, entry for entry unchanged, and for
\* every coverId that both the pin list (as a cover entry) and the dedicated
\* covers list name, no entry was synthesized from the dedicated list.
C3_PinListWins ==
    Published =>
        /\ Len(data.pins_config) >= Len(FetchedPins)
        /\ \A i \in 1..Len(FetchedPins) : data.pins_config[i] = FetchedPins[i]
        /\ \A cover_id \in PinListCoverIds(FetchedPins) \cap DedicatedCoverIds(FetchedCovers) :
               SynthesizedFor(data.pins_config, FetchedPins, cover_id) = {}

\* cover 2 came from both sources with different field values, next to a
\* dedicated cover that the pin list does not have
C3_Witness ==
    /\ Published
    /\ FetchedPins = <<CoverPin102>>
    /\ FetchedCovers = <<Cover2, Cover1>>
    /\ Len(data.pins_config) = 2
    /\ data.pins_config[1]["upTimeSec"] = 10

CoverEntriesFor(merged, cover_id) ==
    {j \in 1..Len(merged) : IsCoverEntry(merged[j]) /\ cover_id \in EntryCoverIds(merged[j])}

\* C4: in every published snapshot the merged pin configuration holds at most
\* one cover entry per coverId, whatever the two lists were.
C4_OneCoverPerId ==
    Published =>
        \A cover_id \in PinListCoverIds(data.pins_config) :
            Cardinality(CoverEntriesFor(data.pins_config, cover_id)) <= 1

\* C5: for every entry of the dedicated covers list whose coverId no
\* virtual-pin cover entry (type cover, pin >= 100) of the pin list has, the
\* merged pin configuration holds exactly one synthesized entry, at pin
\* 100 + coverId and of type cover. Stated for the dedicated lists that name
\* no entry twice, where "exactly one" cannot fail by the duplication of C4.
C5_SynthesizedOnce ==
    Published /\ Distinct(FetchedCovers) =>
        \A cover_id \in DedicatedCoverIds(FetchedCovers) \ VirtualCoverIds(FetchedPins) :
            /\ Cardinality(SynthesizedFor(data.pins_config, FetchedPins, cover_id)) = 1
            /\ \A j \in SynthesizedFor(data.pins_config, FetchedPins, cover_id) :
                   /\ data.pins_config[j]["pin"] = 100 + cover_id
                   /\ data.pins_config[j]["type"] = "cover"

----------------------------------------------------------------------------
(* Claims about the event dispatch, checked under SpecDispatch *)

\* the step in which the button-events response arrives and is dispatched
DispatchStep == pc = "button_events" /\ pc' = "xr8"

FetchedEvents == FetchedOrEmpty(recv.button_events, "events")

\* the calls made for the k-th event, in the order made
CallsOfEvent(calls, k) == SelectSeq(calls, LAMBDA c : c.event = k)

\* the registrations made on a pin, in the order made
RegisteredOn(pin) == SelectSeq(registrations, LAMBDA g : g.pin = pin)

Count(seq, callback) == Cardinality({n \in 1..Len(seq) : seq[n].callback = callback})

\* every call of the k-th event passes that event's pin and type
CallsCarryEvent(calls, events) ==
    \A j \in 1..Len(calls) :
        /\ calls[j].event \in 1..Len(events)
        /\ calls[j].pin = events[calls[j].event]["inputPin"]
        /\ calls[j].event_type = events[calls[j].event]["eventType"]

\* C6 as claimed: in every dispatch, for every event of the list, a callback
\* registered on the event's pin is called exactly once with the event's
\* type, and a callback not registered on that pin is not called.
C6_OncePerListener ==
    [][DispatchStep =>
          /\ CallsCarryEvent(dispatched'.calls, FetchedEvents')
          /\ \A k \in 1..Len(FetchedEvents'), callback \in Callbacks :
                 Count(CallsOfEvent(dispatched'.calls, k), callback)
                     = IF Count(RegisteredOn(FetchedEvents'[k]["inputPin"]), callback) > 0
                           THEN 1 ELSE 0]_vars

\* C6 as amended: in every dispatch, for every event of the list, a callback
\* is called once for each registration of it on the event's pin, with the
\* event's type (exactly once when it was registered once), and a callback
\* not registered on that pin is not called.
C6_OncePerRegistration ==
    [][DispatchStep =>
          /\ CallsCarryEvent(dispatched'.calls, FetchedEvents')
          /\ \A k \in 1..Len(FetchedEvents'), callback \in Callbacks :
                 Count(CallsOfEvent(dispatched'.calls, k), callback)
                     = Count(RegisteredOn(FetchedEvents'[k]["inputPin"]), callback)]_vars

\* two listeners on pin 5 and one on pin 6, and one short press of pin 5
\* dispatched: two calls
C6_Witness ==
    /\ pc = "xr8"
    /\ Len(RegisteredOn(5)) = 2
    /\ RegisteredOn(5)[1].callback # RegisteredOn(5)[2].callback
    /\ Len(RegisteredOn(6)) = 1
    /\ FetchedEvents = <<ShortPress5>>
    /\ Len(dispatched.calls) = 2
    /\ \A j \in 1..2 : dispatched.calls[j].event_type = "short_press"

SomeCallRaised == \E j \in 1..Len(dispatched.calls) : dispatched.calls[j].raised

RECURSIVE ListenerCalls(_)
\* how many calls a dispatch of the events owes to the registrations
ListenerCalls(events) ==
    IF events = <<>> THEN 0
    ELSE Len(RegisteredOn(Head(events)["inputPin"])) + ListenerCalls(Tail(events))

\* C7: a dispatch in which a callback raised still made every call it owes
\* (the later listeners of the pin and the later events included), went on to
\* the relay-module request, and the cycle does not fail for it: when the
\* cycle has ended it has published a snapshot holding the fetched events.
C7_RaisingListenerIsIsolated ==
    [][SomeCallRaised' =>
          /\ DispatchStep => Len(dispatched'.calls) = ListenerCalls(FetchedEvents')
          /\ pc' \in {"xr8", "idle"}
          /\ outcome' # "UpdateFailed"
          /\ pc' = "idle" =>
                 /\ outcome' = "returned"
                 /\ data'.button_events = FetchedEvents']_vars

\* the first listener of pin 5 raised; the second listener of pin 5 and the
\* listener of the later event on pin 6 were called, and the cycle published
C7_Witness ==
    /\ Published
    /\ Len(dispatched.calls) = 3
    /\ dispatched.calls[1].raised
    /\ dispatched.calls[2].event = 1
    /\ dispatched.calls[3].event = 2
    /\ data.button_events = <<ShortPress5, LongPress6>>

\* C8: in every dispatch the calls are made event by event in the order of
\* the fetched list, and for each event the callbacks are called in the order
\* in which they were registered on the event's pin.
C8_DispatchOrder ==
    [][DispatchStep =>
          /\ \A i, j \in 1..Len(dispatched'.calls) :
                 i < j => dispatched'.calls[i].event <= dispatched'.calls[j].event
          /\ \A k \in 1..Len(FetchedEvents') :
                 LET made == CallsOfEvent(dispatched'.calls, k)
                     owed == RegisteredOn(FetchedEvents'[k]["inputPin"])
                 IN  /\ Len(made) = Len(owed)
                     /\ \A n \in 1..Len(made) : made[n].callback = owed[n].callback]_vars

\* two different callbacks registered on pin 5, called in that order for the
\* second of two events
C8_Witness ==
    /\ pc = "xr8"
    /\ Len(RegisteredOn(5)) = 2
    /\ RegisteredOn(5)[1].callback = "cb2"
    /\ RegisteredOn(5)[2].callback = "cb1"
    /\ FetchedEvents = <<LongPress6, ShortPress5>>
    /\ Len(RegisteredOn(6)) = 1
    /\ Len(dispatched.calls) = 3
    /\ dispatched.calls[2].callback = "cb2"
    /\ dispatched.calls[3].callback = "cb1"

\* C16: the calls of a cycle are made in its dispatch step only, which comes
\* before the cycle's last request; they carry exactly the events of that
\* cycle's button-events response, one call for each registration on each
\* event's pin, whatever an earlier cycle fetched; and a cycle whose
\* button-events request failed makes no call.
C16_EventsAreCycleLocal ==
    [][
        /\ dispatched'.calls # dispatched.calls =>
              \/ DispatchStep
              \/ pc = "idle" /\ pc' # "idle" /\ dispatched'.calls = <<>>
        /\ DispatchStep =>
              /\ dispatched'.button_events = FetchedEvents'
              /\ CallsCarryEvent(dispatched'.calls, FetchedEvents')
              /\ Len(dispatched'.calls) = ListenerCalls(FetchedEvents')
        /\ (pc = "button_events" /\ recv'.button_events.st # "ok") =>
              dispatched'.calls = <<>>
    ]_vars

\* a second cycle fetched a long press of pin 6 while the published snapshot
\* of the cycle before holds a short press of pin 5, both pins having a
\* listener: one call, for pin 6
C16_Witness ==
    /\ pc = "xr8"
    /\ data # NoData
    /\ data.button_events = <<ShortPress5>>
    /\ FetchedEvents = <<LongPress6>>
    /\ Len(RegisteredOn(5)) = 1
    /\ Len(RegisteredOn(6)) = 1
    /\ Len(dispatched.calls) = 1
    /\ dispatched.calls[1].pin = 6

\* the event is among those of the published snapshot
ReportedBefore(event) ==
    /\ data # NoData
    /\ \E j \in 1..Len(data.button_events) :
           /\ data.button_events[j]["inputPin"] = event["inputPin"]
           /\ data.button_events[j]["eventType"] = event["eventType"]

\* C25: an event that the response of an earlier cycle held already (it is
\* in the snapshot that cycle published) and that the response of this cycle
\* holds again is dispatched again: every listener registered on its pin is
\* called for it, with its pin and type, once per registration.
C25_NoCrossCycleDeduplication ==
    [][DispatchStep =>
          \A k \in 1..Len(FetchedEvents') :
              ReportedBefore(FetchedEvents'[k]) =>
                  LET made == CallsOfEvent(dispatched'.calls, k)
                      owed == RegisteredOn(FetchedEvents'[k]["inputPin"])
                  IN  /\ Len(made) = Len(owed)
                      /\ \A n \in 1..Len(made) :
                             /\ made[n].callback = owed[n].callback
                             /\ made[n].pin = FetchedEvents'[k]["inputPin"]
                             /\ made[n].event_type = FetchedEvents'[k]["eventType"]]_vars

\* the listener of pin 5 registered before the first cycle; the second cycle
\* fetched the short press of pin 5 that the first had published, and called
\* the listener for it
C25_Witness ==
    /\ pc = "xr8"
    /\ data # NoData
    /\ data.button_events = <<ShortPress5>>
    /\ FetchedEvents = <<ShortPress5>>
    /\ Len(RegisteredOn(5)) = 1
    /\ Len(dispatched.calls) = 1
    /\ dispatched.calls[1].pin = 5
    /\ dispatched.calls[1].event_type = "short_press"

----------------------------------------------------------------------------
(* Claims about the commands, checked under SpecCommands *)

Answered200 == cmd.resp.kind = "http" /\ cmd.resp.status = 200

\* C9: a command method of the coordinator issues one write request and no
\* other; when it has returned, it raised nothing, and it requested exactly
\* one refresh and returned True if the status was 200, and requested no
\* refresh and returned False on any other status, transport error or timeout.
C9_CommandRoundTrip ==
    cmd.op \in CoordinatorCommands =>
        /\ Len(cmd.requests) = 1
        /\ cmd.pc = "awaiting" => cmd.refreshes = 0
        /\ cmd.pc = "done" =>
               /\ cmd.raised = ""
               /\ Answered200 => cmd.refreshes = 1 /\ cmd.result = "True"
               /\ ~Answered200 => cmd.refreshes = 0 /\ cmd.result = "False"

\* async_set_pin_state(3, "on") answered 500: no refresh, False
C9_Witness ==
    /\ cmd.op = "async_set_pin_state"
    /\ cmd.pc = "done"
    /\ cmd.requests[1].json["pin"] = 3
    /\ cmd.requests[1].json["command"] = "on"
    /\ cmd.resp.status = 500
    /\ cmd.refreshes = 0
    /\ cmd.result = "False"
    /\ ~refresh_requested

\* a command reported failure: it returned False or raised
FailureReported == cmd.result = "False" \/ cmd.raised # ""

\* C10: every command, _set_relay_state and async_step_device_name included,
\* that was answered by a non-200 status or failed in transport has reported
\* failure to its caller.
C10_FailureIsReported ==
    cmd.pc = "done" /\ ~Answered200 => FailureReported

----------------------------------------------------------------------------
(* Claims about the cover timers, checked under SpecCoverConfigure *)

\* the cover-configure payloads sent so far by the command in hand and by
\* the wizard since its form was submitted
CoverConfigurePayloads ==
    {cmd.requests[i].json :
        i \in {j \in 1..Len(cmd.requests) : cmd.op = "async_configure_cover"}}
    \cup {wizard.requests[i].json :
             i \in {j \in 1..Len(wizard.requests) :
                      wizard.requests[j].path = "/api/cover/configure"}}

\* C11: every cover-configure request sent to the controller, by
\* async_configure_cover or by _save_cover_config, carries upTimeSec >= 1 and
\* downTimeSec >= 1.
C11_CoverTimesClamped ==
    \A payload \in CoverConfigurePayloads :
        payload["upTimeSec"] >= 1 /\ payload["downTimeSec"] >= 1

\* the wizard's half of C11 alone: what _save_cover_config sends is clamped
WizardCoverTimesClamped ==
    \A i \in 1..Len(wizard.requests) :
        wizard.requests[i].path = "/api/cover/configure" =>
            /\ wizard.requests[i].json["upTimeSec"] >= 1
            /\ wizard.requests[i].json["downTimeSec"] >= 1

----------------------------------------------------------------------------
(* Claims about the wizard's pin steps, checked under SpecWizardPins *)

\* the requests to /api/input/trigger/set issued since the form was submitted
TriggerSetRequests ==
    {i \in 1..Len(wizard.requests) : wizard.requests[i].path = "/api/input/trigger/set"}

\* the save in hand is that of a classic-mode input with "None" selected
SentinelSelected ==
    /\ wizard.revision = "iotix"
    /\ "trigger_output" \in DOMAIN wizard.input_config
    /\ wizard.input_config["trigger_output"] = NoTrigger

\* C12: in both revisions of the wizard, no classic trigger-set request
\* carries the output 255; while the input being saved has 255 selected no
\* request to /api/input/trigger/set is issued at all, and once the save is
\* under way its first request is the pin-configure request of that pin.
C12_SentinelSetsNoTrigger ==
    /\ \A i \in TriggerSetRequests :
           "outputPin" \in DOMAIN wizard.requests[i].json =>
               wizard.requests[i].json["outputPin"] # NoTrigger
    /\ SentinelSelected =>
           /\ TriggerSetRequests = {}
           /\ wizard.pc # "form" =>
                  /\ wizard.requests[1].path = "/api/pin/configure"
                  /\ wizard.requests[1].json["pin"] = wizard.input_config["pin"]

\* input 2 was saved as a classic button with "None": pin-configure returned
\* 200 and the save went on to fetch the pin data
C12_Witness ==
    /\ SentinelSelected
    /\ wizard.input_config["buttonMode"] = "classic"
    /\ wizard.input_config["type"] = "button"
    /\ wizard.pc = "fetch_info"
    /\ wizard.ret = "save_pin"
    /\ Len(wizard.requests) = 2
    /\ wizard.requests[1].json["pin"] = 2

\* the older wizard went back to the trigger list without a request
C12_WitnessOlder ==
    /\ wizard.revision = "iotix_adam"
    /\ wizard.step = "configure_triggers"
    /\ wizard.pc = "form"
    /\ wizard.pin_to_configure = 2
    /\ wizard.requests = <<>>

----------------------------------------------------------------------------
(* Claims about the state loop, checked under Spec *)

\* the state keys of the entries the loop requests the state of
RequestedKeys(merged) ==
    {StateKey(merged[i]) : i \in {j \in 1..Len(merged) : ~SkipsState(merged[j])}}

----------------------------------------------------------------------------
(* Claims about the published snapshot, checked under SpecSnapshot *)

SnapshotKeys ==
    {"device_info", "pins_config", "pin_states", "triggers", "button_events",
     "covers_state", "covers_config", "xr8_modules"}

\* d is the complete snapshot of the cycle whose responses are rc
CompleteSnapshot(d, rc) ==
    /\ DOMAIN d = SnapshotKeys
    /\ d.device_info = rc.info.body
    /\ d.covers_config = FetchedOrEmpty(rc.covers_config, "covers")
    /\ Len(d.pins_config) >= Len(rc.pins_config.body["pins"])
    /\ \A i \in 1..Len(rc.pins_config.body["pins"]) :
           d.pins_config[i] = rc.pins_config.body["pins"][i]
    /\ DOMAIN d.pin_states = {k \in DOMAIN rc.pin_state : rc.pin_state[k].st = "ok"}
    /\ d.triggers = FetchedOrEmpty(rc.triggers, "triggers")
    /\ d.button_events = FetchedOrEmpty(rc.button_events, "events")
    /\ d.xr8_modules = FetchedOrEmpty(rc.xr8, "modules")
    /\ rc.covers_state.st # "none"

\* C15: coordinator.data changes only in the step that ends a cycle
\* successfully, and then to the complete snapshot of that cycle; every
\* other step of a cycle (a request answered, the event dispatch, a failure)
\* and every step of a command leaves it as it was.
C15_SnapshotReplacedAtomically ==
    [][data' # data =>
          /\ pc = "xr8"
          /\ pc' = "idle"
          /\ outcome' = "returned"
          /\ cmd' = cmd
          /\ CompleteSnapshot(data', recv')]_vars

\* a cycle is at its last request while the snapshot of an earlier cycle is
\* still the one published, the events built so far differ from the
\* published ones, and a command has come back in between
C15_Witness ==
    /\ pc = "xr8"
    /\ data # NoData
    /\ data.button_events = <<ShortPress5>>
    /\ locals.button_events = <<>>
    /\ cmd.pc = "done"
    /\ cmd.result = "True"

----------------------------------------------------------------------------
(* Claims about the entities, checked under SpecEntities *)

\* C17 as claimed: while the last cycle has failed fatally, no entity of any
\* class (pin entity, cover, relay switch, button event) reports available.
C17_AllUnavailableAfterFailure ==
    ~last_update_success => \A e \in AllEntities : ~Available(e)

\* the same for the entities that are not button events
OthersUnavailableAfterFailure ==
    ~last_update_success =>
        \A e \in AllEntities : e.class # "AdamButtonEvent" => ~Available(e)

\* the snapshot lists the module of id with configured = true
ListedConfigured(modules, id) ==
    \E i \in 1..Len(modules) :
        /\ "id" \in DOMAIN modules[i]
        /\ modules[i]["id"] = id
        /\ "configured" \in DOMAIN modules[i]
        /\ modules[i]["configured"] = TRUE

RelaySwitchEntities(created) == {e \in Range(created) : e.class = "XR8RelaySwitch"}

\* C20: the switch platform's setup creates relay switches only for modules
\* the snapshot reports with configured = true, and at any time a relay
\* switch is available exactly when the last cycle succeeded and the current
\* snapshot lists its module with configured = true.
C20_RelayEntitiesFollowConfigured ==
    [][
        /\ ("switch" \notin DOMAIN entities /\ "switch" \in DOMAIN entities') =>
              \A e \in RelaySwitchEntities(entities'["switch"]) :
                  ListedConfigured(data.xr8_modules, e.module_id)
        /\ "switch" \in DOMAIN entities' =>
              \A e \in RelaySwitchEntities(entities'["switch"]) :
                  XR8RelaySwitchAvailable(e)' <=>
                      (last_update_success' /\ ListedConfigured(data'.xr8_modules, e.module_id))
    ]_vars

\* set up from a snapshot with module 0 configured and module 1 not, the
\* platform has the one relay switch of module 0; a later successful cycle
\* reports module 0 unconfigured and the switch is unavailable
C20_Witness ==
    /\ "switch" \in DOMAIN entities
    /\ RelaySwitchEntities(entities["switch"]) = {Entity("XR8RelaySwitch", None, None, 0, 0)}
    /\ last_update_success
    /\ data.xr8_modules = <<Module0Reserved, ModuleNoFlag>>
    /\ ~Available(Entity("XR8RelaySwitch", None, None, 0, 0))

----------------------------------------------------------------------------
(* Claims about the config flow, checked under SpecConfigFlow *)

\* C19: a flow that has created an entry, after the zeroconf step and its
\* confirmation or in the user step, has had /api/info answered 200 with
\* model "Adam" and manufacturer "IoTiX", that answer being the last one it
\* got from the device; a zeroconf flow whose payload has no mac property
\* has made no request and is aborted with no_mac.
C19_OnlyAdamControllersAccepted ==
    /\ flow.result.type = "create_entry" =>
           /\ flow.info # <<>>
           /\ "model" \in DOMAIN flow.info /\ flow.info["model"] = "Adam"
           /\ "manufacturer" \in DOMAIN flow.info /\ flow.info["manufacturer"] = "IoTiX"
           /\ flow.requests # <<>>
           /\ flow.result.data.host = flow.requests[Len(flow.requests)].host
    /\ (flow.source = "zeroconf" /\ "mac" \notin DOMAIN flow.discovery.properties) =>
           /\ flow.requests = <<>>
           /\ flow.result.type = "abort"
           /\ flow.result.reason = "no_mac"

\* a user flow whose first host answered with another manufacturer and got
\* the error, and whose second submission created the entry
C19_Witness ==
    /\ flow.source = "user"
    /\ flow.result.type = "create_entry"
    /\ Len(flow.requests) = 2
    /\ flow.info = InfoBody

\* a zeroconf flow confirmed by the user has created the entry
C19_WitnessZeroconf ==
    /\ flow.source = "zeroconf"
    /\ flow.result.type = "create_entry"
    /\ flow.result.data.mac = "AA:BB:CC:DD:EE:FF"

\* a zeroconf flow without a mac property is aborted
C19_WitnessNoMac ==
    /\ flow.source = "zeroconf"
    /\ flow.discovery = WithoutMac
    /\ flow.result.reason = "no_mac"

----------------------------------------------------------------------------
(* Claims about the cover entities, checked under SpecCovers *)

CoverEntities == IF "cover" \in DOMAIN entities THEN entities["cover"] ELSE <<>>

\* a cover entry of the pin list names the cover `id`: by its coverId, or
\* without one by its virtual pin 100 + id
NamesCover(pin_config, id) ==
    /\ "type" \in DOMAIN pin_config
    /\ pin_config["type"] = "cover"
    /\ IF "coverId" \in DOMAIN pin_config
           THEN pin_config["coverId"] = id
           ELSE pin_config["pin"] >= 100 /\ pin_config["pin"] - 100 = id

\* the cover `id` is in one of the two sources of the snapshot d
CoverIdPresent(d, id) ==
    \/ \E i \in 1..Len(d.pins_config) : NamesCover(d.pins_config[i], id)
    \/ \E i \in 1..Len(d.covers_config) :
           "coverId" \in DOMAIN d.covers_config[i] /\ d.covers_config[i]["coverId"] = id

\* C21 as claimed: a cover entity is available exactly when the last cycle
\* succeeded and the snapshot has its coverId in a cover entry of the pin
\* list or in an entry of covers_config.
C21_CoverAvailability ==
    \A e \in Range(CoverEntities) :
        AdamCoverAvailable(e) <=> (last_update_success /\ CoverIdPresent(data, e.cover_id))

\* the snapshot has no cover entry at a physical pin without a coverId
NoUnnumberedCoverPin ==
    \A i \in 1..Len(data.pins_config) :
        IsCover(data.pins_config[i]) =>
            ("coverId" \in DOMAIN data.pins_config[i] \/ data.pins_config[i]["pin"] >= 100)

\* the same on snapshots without such an entry
CoverAvailabilityOfNumberedCovers ==
    \A e \in Range(CoverEntities) :
        NoUnnumberedCoverPin =>
            (AdamCoverAvailable(e) <=> (last_update_success /\ CoverIdPresent(data, e.cover_id)))

\* the coverIds the snapshot d has: of the cover entries of the pin list
\* with pin >= 100 and of the entries of covers_config
SnapshotCoverIds(d) ==
    {PinCoverId(d.pins_config[i]) :
        i \in {j \in 1..Len(d.pins_config) : IsCoverPin(d.pins_config[j])}}
    \cup {d.covers_config[i]["coverId"] :
             i \in {j \in 1..Len(d.covers_config) : "coverId" \in DOMAIN d.covers_config[j]}}

CoverSetupStep == "cover" \notin DOMAIN entities /\ "cover" \in DOMAIN entities'

\* C29 as claimed: the cover platform's setup creates one AdamCover for
\* each coverId of the snapshot and no two of them with the same coverId.
C29_OneCoverEntityPerId ==
    [][CoverSetupStep =>
          LET created == entities'["cover"]
          IN  /\ {created[i].cover_id : i \in 1..Len(created)} = SnapshotCoverIds(data)
              /\ \A i, j \in 1..Len(created) :
                     created[i].cover_id = created[j].cover_id => i = j]_vars

\* the same for snapshots whose pin list names no coverId twice
PinListNamesCoversOnce ==
    \A i, j \in 1..Len(data.pins_config) :
        (/\ IsCoverPin(data.pins_config[i])
         /\ IsCoverPin(data.pins_config[j])
         /\ PinCoverId(data.pins_config[i]) = PinCoverId(data.pins_config[j])) => i = j

OneCoverEntityPerIdOfDistinctPins ==
    [][(CoverSetupStep /\ PinListNamesCoversOnce) =>
          LET created == entities'["cover"]
          IN  /\ {created[i].cover_id : i \in 1..Len(created)} = SnapshotCoverIds(data)
              /\ \A i, j \in 1..Len(created) :
                     created[i].cover_id = created[j].cover_id => i = j]_vars

----------------------------------------------------------------------------
(* Claims about the state keys, checked under SpecStateKeys *)

\* a step of a state loop, of either coordinator
StateLoopStep == pc \in {"pin_state", "old_pin_state"}

\* the entry whose state the loop is asking for
RequestedEntry ==
    IF pc = "old_pin_state" THEN locals.raw_pins_config[locals.i]
    ELSE locals.merged_pins_config[locals.i]

\* the loop's mapping after a step: the published one when the cycle ended
PinStatesAfter == IF pc' = "idle" THEN data'.pin_states ELSE locals'.pin_states

\* the state request of this step is answered 200
AnsweredOk ==
    LET key == IF pc = "old_pin_state" THEN EntryKey(locals.i)
               ELSE StateKey(RequestedEntry)
    IN  recv'.pin_state[key].st = "ok"

\* C22 as claimed (the pin lists name no direction and pin twice): every
\* answered state request adds an entry of its own to the mapping and leaves
\* the entries recorded before as they were, so input 3 and output 3 end as
\* two entries.
C22_StateKeysSeparateDirections ==
    [][(StateLoopStep /\ AnsweredOk) =>
          /\ Cardinality(DOMAIN PinStatesAfter) = Cardinality(DOMAIN locals.pin_states) + 1
          /\ \A k \in DOMAIN locals.pin_states :
                 k \in DOMAIN PinStatesAfter /\ PinStatesAfter[k] = locals.pin_states[k]]_vars

\* the same for the coordinator of custom_components/iotix alone
StateKeysSeparateDirectionsInCurrent ==
    [][(pc = "pin_state" /\ AnsweredOk) =>
          /\ Cardinality(DOMAIN PinStatesAfter) = Cardinality(DOMAIN locals.pin_states) + 1
          /\ \A k \in DOMAIN locals.pin_states :
                 k \in DOMAIN PinStatesAfter /\ PinStatesAfter[k] = locals.pin_states[k]]_vars

----------------------------------------------------------------------------
(* Claims about the pin entities, checked under SpecOlderEntities *)

\* the pin type the platform of an entity class is set up for
EntityType(class) ==
    CASE class = "AdamBinarySensor" -> "binary_sensor"
      [] class = "AdamLight"        -> "light"
      [] class = "AdamSwitch"       -> "switch"
      [] OTHER                      -> ""

PinEntitiesCreated ==
    {e \in AllEntities : e.class \in {"AdamBinarySensor", "AdamLight", "AdamSwitch"}}

\* the entries of the published pin list an entity stands for
EntriesOf(e) ==
    {i \in 1..Len(data.pins_config) :
        /\ data.pins_config[i]["pin"] = e.pin
        /\ Get(data.pins_config[i], "type", "") = EntityType(e.class)}

\* the state request of entry i failed in the cycle that published
FetchFailed(i) ==
    EntryKey(i) \in DOMAIN recv.pin_state /\ recv.pin_state[EntryKey(i)].st = "fail"

\* C23 as claimed: a pin entity is available only when the last cycle
\* succeeded and the snapshot's pin-state mapping has an entry for its pin,
\* and an entity whose pin's state request failed in the cycle that published
\* the snapshot is unavailable.
C23_AbsentMeansUnknown ==
    \A e \in PinEntitiesCreated :
        /\ AdamEntityAvailable(e) =>
               (last_update_success /\ PinKey(e.pin) \in DOMAIN data.pin_states)
        /\ (Published /\ \E i \in EntriesOf(e) : FetchFailed(i)) => ~AdamEntityAvailable(e)

\* no two entries of the published pin list have the same pin number
PinNumbersDistinct ==
    \A i, j \in 1..Len(data.pins_config) :
        data.pins_config[i]["pin"] = data.pins_config[j]["pin"] => i = j

\* the same on pin lists without a repeated pin number
AbsentMeansUnknownOfDistinctPins ==
    \A e \in PinEntitiesCreated :
        /\ AdamEntityAvailable(e) =>
               (last_update_success /\ PinKey(e.pin) \in DOMAIN data.pin_states)
        /\ (Published /\ PinNumbersDistinct /\ \E i \in EntriesOf(e) : FetchFailed(i)) =>
               ~AdamEntityAvailable(e)

\* on such a list the entity of input 2 is unavailable after its request
\* failed, while the entity of output 3 is available
AbsentMeansUnknownReached ==
    /\ Published
    /\ data.pins_config = <<OutPin3, Input2>>
    /\ FetchFailed(2)
    /\ Entity("AdamBinarySensor", 2, None, None, None) \in AllEntities
    /\ Entity("AdamLight", 3, None, None, None) \in AllEntities
    /\ AdamEntityAvailable(Entity("AdamLight", 3, None, None, None))

----------------------------------------------------------------------------
(* Claims about the order of a cycle, checked under SpecOrder *)

\* the request in flight is named by pc; b may follow a
Follows(a, b) ==
    \/ a = "idle" /\ b = "info"
    \/ a = "info" /\ b \in {"pins_config", "idle"}
    \/ a = "pins_config" /\ b \in {"covers_config", "idle"}
    \/ a = "covers_config" /\ b \in {"pin_state", "covers_state"}
    \/ a = "pin_state" /\ b \in {"pin_state", "covers_state"}
    \/ a = "covers_state" /\ b = "triggers"
    \/ a = "triggers" /\ b = "button_events"
    \/ a = "button_events" /\ b = "xr8"
    \/ a = "xr8" /\ b = "idle"

\* no entry of the merged list from index a to index b has its state requested
NoneRequested(merged, a, b) == \A i \in a..b : i <= Len(merged) => SkipsState(merged[i])

\* no request after the one named has been answered in the cycle
NothingAfterInfo(rc) ==
    /\ rc.pins_config.st = "none"
    /\ rc.covers_config.st = "none"
    /\ rc.pin_state = <<>>
    /\ rc.covers_state.st = "none"
    /\ rc.triggers.st = "none"
    /\ rc.button_events.st = "none"
    /\ rc.xr8.st = "none"

NothingAfterPinsConfig(rc) ==
    /\ rc.covers_config.st = "none"
    /\ rc.pin_state = <<>>
    /\ rc.covers_state.st = "none"
    /\ rc.triggers.st = "none"
    /\ rc.button_events.st = "none"
    /\ rc.xr8.st = "none"

\* C24: the requests of a cycle follow one another in the order info, pin
\* config, covers config, the states of the requested pins in the order of
\* the merged list, covers state, triggers, button events, relay modules; a
\* failed info request ends the cycle with no other request made, a failed
\* pin-config request ends it with no later request made and no listener called.
C24_RequestOrder ==
    [][
        /\ (pc' # pc \/ recv' # recv) => Follows(pc, pc')
        /\ (pc = "covers_config" /\ pc' = "pin_state") =>
              NoneRequested(locals'.merged_pins_config, 1, locals'.i - 1)
        /\ (pc = "pin_state" /\ pc' = "pin_state" /\ recv' # recv) =>
              /\ locals'.i > locals.i
              /\ NoneRequested(locals.merged_pins_config, locals.i + 1, locals'.i - 1)
        /\ (pc = "covers_config" /\ pc' = "covers_state") =>
              NoneRequested(locals'.merged_pins_config, 1, Len(locals'.merged_pins_config))
        /\ (pc = "pin_state" /\ pc' = "covers_state") =>
              NoneRequested(locals.merged_pins_config, locals.i + 1,
                            Len(locals.merged_pins_config))
        /\ (pc = "info" /\ recv'.info.st = "fail") =>
              pc' = "idle" /\ NothingAfterInfo(recv') /\ dispatched'.calls = <<>>
        /\ (pc = "pins_config" /\ recv'.pins_config.st = "fail") =>
              pc' = "idle" /\ NothingAfterPinsConfig(recv') /\ dispatched'.calls = <<>>
    ]_vars

\* with a listener on pin 5, a cycle ended at its failed pin-config request
\* after an earlier cycle had dispatched the press of pin 5
C24_Witness ==
    /\ pc = "idle"
    /\ outcome = "UpdateFailed"
    /\ recv.info.st = "ok"
    /\ recv.pins_config.st = "fail"
    /\ Len(RegisteredOn(5)) = 1
    /\ data # NoData
    /\ data.button_events = <<ShortPress5>>
    /\ dispatched.calls = <<>>

\* C26: listeners are called only in the step that follows the button-events
\* response, before the relay-module request is answered and while
\* coordinator.data and last_update_success are still those of the cycle
\* before; the cycle then ends in one way only, by publishing a snapshot whose
\* button_events are the events that were dispatched, and it does end so.
C26_DispatchPrecedesPublication ==
    /\ [][
           /\ (dispatched'.calls # dispatched.calls /\ dispatched'.calls # <<>>) =>
                 /\ DispatchStep
                 /\ recv'.button_events.st = "ok"
                 /\ recv'.xr8.st = "none"
                 /\ data' = data
                 /\ last_update_success' = last_update_success
           /\ DispatchStep => dispatched'.button_events = FetchedEvents'
           /\ (pc = "xr8" /\ pc' # "xr8") =>
                 /\ Published'
                 /\ DOMAIN data' = SnapshotKeys
                 /\ data'.button_events = dispatched.button_events
                 /\ dispatched' = dispatched
       ]_vars
    /\ (pc = "xr8") ~> (Published /\ data.button_events = dispatched.button_events)

\* the listener of pin 5 was called for the fetched short press while the
\* published snapshot, of a cycle whose button-events request had failed,
\* holds no event
C26_Witness ==
    /\ pc = "xr8"
    /\ data # NoData
    /\ data.button_events = <<>>
    /\ last_update_success
    /\ FetchedEvents = <<ShortPress5>>
    /\ Len(dispatched.calls) = 1
    /\ dispatched.calls[1].pin = 5

----------------------------------------------------------------------------
(* Claims about the pin-state mapping, checked under SpecPinStates *)

\* the entry is no cover and its pin is below 100
Requestable(e) == ~("type" \in DOMAIN e /\ e["type"] = "cover") /\ e["pin"] < 100

\* the direction of an entry: its isInput, or without one whether its type
\* is binary_sensor
DirectionIsInput(e) ==
    IF "isInput" \in DOMAIN e THEN e["isInput"]
    ELSE "type" \in DOMAIN e /\ e["type"] = "binary_sensor"

DirectionKey(e) == (IF DirectionIsInput(e) THEN "in_" ELSE "out_") \o ToString(e["pin"])

\* C28: a state request is in flight only for an entry of the merged list
\* that is no cover and has a pin below 100; the answer of a request adds no
\* key but that of its entry, the direction taken from the entry's isInput
\* (or from its type being binary_sensor); the loop goes on to a later entry,
\* so no entry is requested twice in a cycle; and every key of the published
\* pin_states is the key of such an entry of the published pin configuration.
C28_PinStatesFollowPinConfig ==
    [][
        /\ pc' = "pin_state" =>
              /\ locals'.i \in 1..Len(locals'.merged_pins_config)
              /\ Requestable(locals'.merged_pins_config[locals'.i])
        /\ (pc = "pin_state" /\ locals' # locals) =>
              /\ pc' = "pin_state" => locals'.i > locals.i
              /\ locals'.merged_pins_config = locals.merged_pins_config
              /\ DOMAIN locals'.pin_states \subseteq
                     DOMAIN locals.pin_states
                         \cup {DirectionKey(locals.merged_pins_config[locals.i])}
        /\ (pc # "idle" /\ pc' = "idle" /\ outcome' = "returned") =>
              /\ data'.pins_config = locals.merged_pins_config
              /\ \A k \in DOMAIN data'.pin_states :
                     \E j \in 1..Len(data'.pins_config) :
                         /\ Requestable(data'.pins_config[j])
                         /\ k = DirectionKey(data'.pins_config[j])
    ]_vars

\* a snapshot of the list with a cover on pin 5 and a binary_sensor marked as
\* output on pin 4, and the synthesized cover pin 101: one state, under out_4
C28_Witness ==
    /\ Published
    /\ Len(data.pins_config) = 3
    /\ data.pins_config[1] = CoverPin5
    /\ data.pins_config[2] = SensorOutput4
    /\ data.pins_config[3]["pin"] = 101
    /\ DOMAIN data.pin_states = {"out_4"}

----------------------------------------------------------------------------
(* Claims about the zeroconf step, checked under SpecConfigFlow *)

\* async_step_zeroconf returns in this step: at once, or on the answer to
\* its /api/info request
ZeroconfStepReturns ==
    \/ flow.pc = "none" /\ flow'.source = "zeroconf" /\ flow'.pc # "zeroconf_info"
    \/ flow.pc = "zeroconf_info" /\ flow'.pc # "zeroconf_info"

\* an abort, or the discovery-confirm form
DefiniteZeroconfResult(result) ==
    \/ result.type = "abort" /\ result.reason # ""
    \/ result.type = "form" /\ result.step_id = "discovery_confirm"

\* C30: whenever async_step_zeroconf returns, whatever the answer to its
\* /api/info request was, its result is an abort or the discovery-confirm form.
C30_ZeroconfEndsInDefiniteResult ==
    [][ZeroconfStepReturns => DefiniteZeroconfResult(flow'.result)]_vars

\* the same for every return but the one on an answer with a status other than 200
ZeroconfEndsInDefiniteResultUnlessNon200 ==
    [][(ZeroconfStepReturns /\ flow'.result # NoResult) =>
          DefiniteZeroconfResult(flow'.result)]_vars

----------------------------------------------------------------------------
(* Claims about _save_pin_config, checked under SpecWizardPins *)

\* the first answer since the form was submitted is that of the
\* pin-configure request
PinConfigureAnswered(w) ==
    /\ w.answers # <<>>
    /\ w.answers[1].path = "/api/pin/configure"
    /\ w.requests # <<>>
    /\ w.requests[1].path = "/api/pin/configure"

PinConfigureReturned200(w) ==
    /\ PinConfigureAnswered(w)
    /\ w.answers[1].kind = "http"
    /\ w.answers[1].status = 200

PinConfigureFailed(w) == PinConfigureAnswered(w) /\ ~PinConfigureReturned200(w)

TriggersRequestedBy(w) ==
    {i \in 1..Len(w.requests) : w.requests[i].path = "/api/input/trigger/set"}

\* C31: in _save_pin_config a trigger-set request is issued and the entry is
\* reloaded only when the pin-configure request has returned 200; when it
\* has failed (another status or an exception) the wizard is back at the
\* input or output list at once, with no trigger-set request and no reload.
C31_SaveOrdering ==
    [][wizard.revision = "iotix" =>
          /\ (TriggersRequestedBy(wizard') # TriggersRequestedBy(wizard)
                 /\ TriggersRequestedBy(wizard') # {}) =>
                 PinConfigureReturned200(wizard')
          /\ wizard'.reloads > wizard.reloads => PinConfigureReturned200(wizard')
          /\ (wizard.pc = "pin_configure" /\ PinConfigureFailed(wizard')) =>
                 /\ wizard'.pc = "form"
                 /\ wizard'.step = IF wizard.input_config["isInput"]
                                       THEN "configure_inputs" ELSE "configure_outputs"
                 /\ wizard'.requests = wizard.requests
                 /\ TriggersRequestedBy(wizard') = {}
                 /\ wizard'.reloads = 0]_vars

\* input 2 was to be saved as a classic button triggering output 3; the
\* pin-configure request failed and the wizard shows the input list, the
\* pin-configure request being the only one made
C31_Witness ==
    /\ wizard.revision = "iotix"
    /\ wizard.pc = "form"
    /\ wizard.step = "configure_inputs"
    /\ PinConfigureFailed(wizard)
    /\ "trigger_output" \in DOMAIN wizard.input_config
    /\ wizard.input_config["trigger_output"] # NoTrigger
    /\ Len(wizard.requests) = 1
    /\ wizard.reloads = 0

\* the save in hand is that of a push-mode input whose pin-configure
\* request returned 200
PushSaveAccepted ==
    /\ wizard.revision = "iotix"
    /\ "buttonMode" \in DOMAIN wizard.input_config
    /\ wizard.input_config["buttonMode"] = "push"
    /\ PinConfigureReturned200(wizard)

\* C32: the save of a push-mode input whose pin-configure request returned
\* 200 has issued exactly one trigger-set request; it carries inputPin and
\* the three of shortPressOutput, longPressOutput and doublePressOutput, each
\* the output selected for it (255 where none was), and no outputPin.
C32_PushModeSave ==
    PushSaveAccepted =>
        /\ Cardinality(TriggersRequestedBy(wizard)) = 1
        /\ \A i \in TriggersRequestedBy(wizard) :
               LET json == wizard.requests[i].json
               IN  /\ DOMAIN json = {"inputPin", "shortPressOutput", "longPressOutput",
                                     "doublePressOutput"}
                   /\ json["inputPin"] = wizard.input_config["pin"]
                   /\ json["shortPressOutput"] = wizard.input_config["short_press_output"]
                   /\ json["longPressOutput"] = wizard.input_config["long_press_output"]
                   /\ json["doublePressOutput"] = wizard.input_config["double_press_output"]

\* input 2 saved in push mode with output 3 for the short press and no
\* action for the other two; the save is over and the entry reloaded
C32_Witness ==
    /\ PushSaveAccepted
    /\ wizard.pc = "form"
    /\ wizard.reloads = 1
    /\ wizard.input_config["pin"] = 2
    /\ wizard.input_config["short_press_output"] = 3
    /\ wizard.input_config["long_press_output"] = NoTrigger
    /\ wizard.input_config["double_press_output"] = NoTrigger
    /\ \E i \in TriggersRequestedBy(wizard) :
           /\ wizard.requests[i].json["shortPressOutput"] = 3
           /\ wizard.requests[i].json["longPressOutput"] = 255

----------------------------------------------------------------------------
(* Claims about async_configure_xr8_module, checked under SpecCommands *)

ConfigureXR8Called == cmd.op = "async_configure_xr8_module"

\* C34: the request of async_configure_xr8_module is always sent, with
\* moduleId, address and configured as given; it holds a relays list exactly
\* when relay_names was given with 8 entries, and the list then has the 8
\* names in the order given; with any other length, or None, it holds the
\* three fields only.
C34_RelayNamesOnlyWhenEight ==
    ConfigureXR8Called =>
        /\ Len(cmd.requests) = 1
        /\ cmd.requests[1].path = "/api/xr8/configure"
        /\ LET json  == cmd.requests[1].json
               names == cmd.args.relay_names
           IN  /\ json["moduleId"] = cmd.args.module_id
               /\ json["address"] = cmd.args.address
               /\ json["configured"] = cmd.args.configured
               /\ "relays" \in DOMAIN json <=> Len(names) = 8
               /\ Len(names) = 8 =>
                      /\ Len(json["relays"]) = 8
                      /\ \A n \in 1..8 : json["relays"][n] = [name |-> names[n]]
               /\ Len(names) # 8 => DOMAIN json = {"moduleId", "address", "configured"}

\* seven names were given for module 7: the request went out without
\* relays and was answered 200
C34_Witness ==
    /\ ConfigureXR8Called
    /\ cmd.pc = "done"
    /\ cmd.result = "True"
    /\ cmd.args.module_id = 7
    /\ Len(cmd.args.relay_names) = 7
    /\ DOMAIN cmd.requests[1].json = {"moduleId", "address", "configured"}

\* eight names were given: the request holds them in order
C34_WitnessEight ==
    /\ ConfigureXR8Called
    /\ Len(cmd.args.relay_names) = 8
    /\ cmd.requests[1].json["relays"][8] = [name |-> "Relay 8"]

----------------------------------------------------------------------------
(* Claims about the relay-module steps, checked under SpecXR8Wizard *)

\* what each entered address means: its number, or that it is none
AddressMeaning(address_str) ==
    CASE address_str = Address0x20   -> [ok |-> TRUE, value |-> 32]
      [] address_str = Address0x21   -> [ok |-> TRUE, value |-> 33]
      [] address_str = Address0X27   -> [ok |-> TRUE, value |-> 39]
      [] address_str = Address0x28   -> [ok |-> TRUE, value |-> 40]
      [] address_str = Address0x1f   -> [ok |-> TRUE, value |-> 31]
      [] address_str = Address32     -> [ok |-> TRUE, value |-> 32]
      [] address_str = Address20     -> [ok |-> TRUE, value |-> 20]
      [] address_str = Address40     -> [ok |-> TRUE, value |-> 40]
      [] address_str = AddressMinus  -> [ok |-> TRUE, value |-> 0 - 33]
      [] OTHER                       -> [ok |-> FALSE, value |-> 0]

\* a configured module of the snapshot with another id has the address
UsedByAnother(address, module_id) ==
    data # NoData /\ \E i \in 1..Len(data.xr8_modules) :
        LET m == data.xr8_modules[i]
        IN  /\ "configured" \in DOMAIN m /\ m["configured"]
            /\ "address" \in DOMAIN m /\ m["address"] = address
            /\ ~("id" \in DOMAIN m /\ m["id"] = module_id)

\* the module being edited is a configured module of the snapshot
StillConfigured(module_id) ==
    data # NoData /\ \E i \in 1..Len(data.xr8_modules) :
        LET m == data.xr8_modules[i]
        IN  /\ "id" \in DOMAIN m /\ m["id"] = module_id
            /\ "configured" \in DOMAIN m /\ m["configured"]

\* the add or edit form is submitted in this step
ModuleFormSubmitted ==
    /\ wizard.pc = "form"
    /\ wizard.step \in {"add_xr8_module", "edit_xr8_module"}
    /\ wizard' # wizard

\* the address submitted in this step is a number of 0x20..0x27 that no
\* other configured module of the snapshot has
AddressValid ==
    LET meaning == AddressMeaning(wizard'.user_input.address)
    IN  /\ meaning.ok
        /\ meaning.value >= 32
        /\ meaning.value <= 39
        /\ ~UsedByAnother(meaning.value, wizard.cover_to_configure)

\* the step issues the configure request of the module with that address
ConfigureRequested ==
    /\ Len(wizard'.requests) = 1
    /\ wizard'.requests[1].path = "/api/xr8/configure"
    /\ wizard'.requests[1].json["moduleId"] = wizard.cover_to_configure
    /\ wizard'.requests[1].json["address"] = AddressMeaning(wizard'.user_input.address).value

\* the step shows its form again with an error, and sends nothing
FormShownAgainWithError ==
    /\ wizard'.requests = <<>>
    /\ wizard'.pc = "form"
    /\ wizard'.step = wizard.step
    /\ wizard'.errors \in {"invalid_address_format", "invalid_address_range",
                            "address_in_use"}

\* C33 as claimed: the add and the edit step issue a configure request only
\* when the entered address is a number of 0x20..0x27 that no other
\* configured module of the current snapshot has; otherwise the form is
\* shown again with an error and no request is sent.
C33_AddressValidated ==
    [][ModuleFormSubmitted =>
          /\ wizard'.requests # <<>> => AddressValid /\ ConfigureRequested
          /\ ~AddressValid => FormShownAgainWithError]_vars

\* C33 as amended: the same, but an edit step whose module is no longer a
\* configured module of the current snapshot goes back to the module list,
\* whatever the address, with no request and no error.
C33_AddressValidatedWhileConfigured ==
    [][ModuleFormSubmitted =>
          /\ wizard'.requests # <<>> => AddressValid /\ ConfigureRequested
          /\ IF wizard.step = "edit_xr8_module" /\ ~StillConfigured(wizard.cover_to_configure)
                 THEN /\ wizard'.requests = <<>>
                      /\ wizard'.step = "configure_xr8"
                      /\ wizard'.errors = ""
                 ELSE /\ ~AddressValid => FormShownAgainWithError
                      /\ AddressValid => ConfigureRequested]_vars

\* module 0 is edited while module 1 is configured at 0x21: the decimal 32,
\* its own address, is accepted and the request is under way
C33_Witness ==
    /\ wizard.pc = "edit_xr8_configure"
    /\ wizard.cover_to_configure = 0
    /\ wizard.user_input.address = Address32
    /\ data # NoData
    /\ data.xr8_modules = <<Module0, Module1Configured>>
    /\ wizard.requests[1].json["address"] = 32

\* module 1 is added with 0x20, the address of the configured module 0: the
\* form is shown again
C33_WitnessInUse ==
    /\ wizard.pc = "form"
    /\ wizard.step = "add_xr8_module"
    /\ wizard.cover_to_configure = 1
    /\ wizard.user_input = [address |-> Address0x20]
    /\ wizard.errors = "address_in_use"
    /\ wizard.requests = <<>>

----------------------------------------------------------------------------
(* C35: the numbering of the virtual pins *)

\* the entries the merge has added for the dedicated covers
SynthesizedEntries ==
    IF data = NoData THEN {}
    ELSE {data.pins_config[i] : i \in 1..Len(data.pins_config)}

\* the relays the wizard has numbered: module id and relay id of every
\* relay of a configured module of the list it was answered
NumberedRelays ==
    {<<wizard.xr8_modules[i]["id"], wizard.xr8_modules[i]["relays"][n]["id"]>> :
        i \in 1..Len(wizard.xr8_modules), n \in 1..8}

RelayPins == {pin \in wizard.available_output_pins : pin >= 1000}

\* the wizard holds the relay pins of the list it was answered
RelaysNumbered == wizard.pc \notin {"closed", "fetch_info", "fetch_pins", "fetch_available", "fetch_xr8"}

\* C35: the coordinator gives the dedicated cover coverId (0..3) the pin
\* 100 + coverId and the wizard gives relay relayId (0..7) of module moduleId
\* (0..7) the pin 1000 + moduleId*100 + relayId; these pins are pairwise
\* distinct, none lies in the physical range 0..15 and none is the sentinel
\* 255, so no output the trigger forms offer besides "none" and no pin of a
\* snapshot is the sentinel.
C35_VirtualPinNumbering ==
    /\ \A e \in SynthesizedEntries :
         /\ e.coverId \in 0..3
         /\ e.pin = 100 + e.coverId
         /\ e.pin \notin 0..15
         /\ e.pin # NoTrigger
         /\ e.pin \notin RelayPins
         /\ \A f \in SynthesizedEntries : f.coverId # e.coverId => f.pin # e.pin
    /\ RelaysNumbered =>
         /\ NumberedRelays \subseteq (0..7) \X (0..7)
         /\ RelayPins = {1000 + (mr[1] * 100) + mr[2] : mr \in NumberedRelays}
         /\ Cardinality(RelayPins) = Cardinality(NumberedRelays)
         /\ \A pin \in RelayPins : pin \notin 0..15 /\ pin # NoTrigger
         /\ OutputOptions(wizard) \ {NoTrigger} = 0..15 \cup RelayPins
         /\ NoTrigger \notin 0..15 \cup RelayPins

\* two covers and the sixteen relays of two modules are numbered at once
C35_Witness ==
    /\ Cardinality(SynthesizedEntries) = 2
    /\ RelaysNumbered
    /\ Cardinality(NumberedRelays) = 16
    /\ Cardinality(RelayPins) = 16
    /\ 103 \in {e.pin : e \in SynthesizedEntries}
    /\ 1707 \in RelayPins

----------------------------------------------------------------------------
(* C36: the pins of a cover are protected *)

\* a configured cover (pin >= 100) of the cached pin list names the pin as
\* one of its inputs (for an input) or of its outputs (for an output)
OwnedByCover(all_pins, pin_num, is_input) ==
    \E j \in 1..Len(all_pins) :
        /\ "type" \in DOMAIN all_pins[j] /\ all_pins[j]["type"] = "cover"
        /\ "pin" \in DOMAIN all_pins[j] /\ all_pins[j]["pin"] >= 100
        /\ \E key \in (IF is_input THEN {"inputUpPin", "inputDownPin"}
                                   ELSE {"outputUpPin", "outputDownPin"}) :
               key \in DOMAIN all_pins[j] /\ all_pins[j][key] = pin_num

\* the edit form of a pin that a cover owns is on the screen
EditingOwnedPin ==
    /\ wizard.revision = "iotix"
    /\ wizard.step = "edit_pin"
    /\ wizard.pc = "form"
    /\ OwnedByCover(wizard.all_pins, wizard.pin_to_configure, wizard.is_input)

\* a save begun by async_step_edit_pin or by the forms after it is in hand
SaveInHand == wizard.pc \in {"pin_configure", "trigger_set", "push_trigger_set"}

\* C36: when the pin selected in the wizard is named by a configured cover
\* (pin >= 100) as inputUpPin or inputDownPin (an input) or as outputUpPin or
\* outputDownPin (an output), submitting the edit form issues no request: the
\* wizard goes back to the input or output list; and no save that the edit
\* form leads to is ever in hand for such a pin.
C36_CoverPinsProtected ==
    /\ [](SaveInHand =>
            ~OwnedByCover(wizard.all_pins, wizard.input_config["pin"],
                          wizard.input_config["isInput"]))
    /\ [][(EditingOwnedPin /\ wizard' # wizard) =>
              /\ wizard'.requests = <<>>
              /\ wizard'.reloads = 0
              /\ wizard'.pc = "form"
              /\ wizard'.step = IF wizard.is_input THEN "configure_inputs"
                                                   ELSE "configure_outputs"
              /\ wizard'.all_pins = wizard.all_pins]_vars

\* the edit form of input 0, which the cover at pin 100 uses to go up, was
\* submitted: the input list is shown and nothing was requested
C36_Witness ==
    /\ wizard.revision = "iotix"
    /\ wizard.pc = "form"
    /\ wizard.step = "configure_inputs"
    /\ wizard.pin_to_configure = 0
    /\ wizard.is_input
    /\ OwnedByCover(wizard.all_pins, 0, TRUE)
    /\ wizard.requests = <<>>
    /\ wizard.input_config = <<>>

\* the same for output 1, which the cover uses to go down
C36_WitnessOutput ==
    /\ wizard.revision = "iotix"
    /\ wizard.pc = "form"
    /\ wizard.step = "configure_outputs"
    /\ wizard.pin_to_configure = 1
    /\ ~wizard.is_input
    /\ OwnedByCover(wizard.all_pins, 1, FALSE)
    /\ wizard.requests = <<>>
    /\ wizard.input_config = <<>>

----------------------------------------------------------------------------
(* C37: the validation of the cover form *)

EditCoverSubmitted ==
    /\ wizard.revision = "iotix"
    /\ wizard.step = "edit_cover"
    /\ wizard.pc = "form"
    /\ wizard' # wizard

\* two physical inputs and two physical outputs are available
EnoughPins ==
    /\ Cardinality(wizard.available_input_pins \cap 0..15) >= 2
    /\ Cardinality(wizard.available_output_pins \cap 0..15) >= 2

\* the submission has issued one cover-configure request
CoverConfigureRequested ==
    /\ Len(wizard'.requests) = 1
    /\ wizard'.requests[1].method = "POST"
    /\ wizard'.requests[1].path = "/api/cover/configure"
    /\ wizard'.pc = "cover_configure"

\* the pins the request carries, which are the submitted ones, differ
RequestedPinsDiffer ==
    LET json == wizard'.requests[1].json
    IN  /\ json["inputUpPin"] # json["inputDownPin"]
        /\ json["outputUpPin"] # json["outputDownPin"]

\* C37: a submission of the cover form issues a cover-configure request only
\* when at least two physical inputs and two physical outputs are available,
\* input_up differs from input_down and output_up from output_down; in every
\* other case no request is sent and the form is shown again with an error.
C37_CoverFormValidated ==
    [][EditCoverSubmitted =>
          IF CoverConfigureRequested
              THEN EnoughPins /\ RequestedPinsDiffer
              ELSE /\ wizard'.requests = <<>>
                   /\ wizard'.pc = "form"
                   /\ wizard'.step = "edit_cover"
                   /\ wizard'.errors \in
                          IF EnoughPins
                              THEN {"cover_inputs_must_differ", "cover_outputs_must_differ"}
                              ELSE {"cover_requires_two_inputs",
                                    "cover_requires_two_outputs"}]_vars

\* the form was submitted with one output both to go up and to go down: it
\* is shown again with an error and nothing was requested
C37_Witness ==
    /\ wizard.step = "edit_cover"
    /\ wizard.pc = "form"
    /\ wizard.errors = "cover_outputs_must_differ"
    /\ wizard.requests = <<>>
    /\ wizard.reloads = 0

\* the form was submitted while one output was available
C37_WitnessTooFew ==
    /\ wizard.step = "edit_cover"
    /\ wizard.pc = "form"
    /\ Cardinality(wizard.available_input_pins \cap 0..15) >= 2
    /\ Cardinality(wizard.available_output_pins \cap 0..15) = 1
    /\ wizard.errors = "cover_requires_two_outputs"
    /\ wizard.requests = <<>>
    /\ wizard.cover_to_configure # None

----------------------------------------------------------------------------
(* C38: a pin set to "unconfigured" *)

\* the edit form of a pin is submitted with the type "unconfigured"
UnconfiguredSubmitted ==
    /\ wizard.step = "edit_pin"
    /\ wizard.pc = "form"
    /\ wizard' # wizard
    /\ "type" \in DOMAIN wizard'.user_input
    /\ wizard'.user_input["type"] = "unconfigured"

\* C38: choosing the type "unconfigured" for a pin, in either revision of
\* the wizard, issues no request to the controller, makes no reload and
\* leaves the wizard's cached pin list and available pins as they were; the
\* wizard shows the input list (for an input) or the output list again.
C38_UnconfiguredDoesNothing ==
    [][UnconfiguredSubmitted =>
          /\ wizard'.requests = <<>>
          /\ wizard'.reloads = 0
          /\ wizard'.all_pins = wizard.all_pins
          /\ wizard'.available_input_pins = wizard.available_input_pins
          /\ wizard'.available_output_pins = wizard.available_output_pins
          /\ wizard'.pc = "form"
          /\ wizard'.step = IF wizard.is_input THEN "configure_inputs"
                                               ELSE "configure_outputs"]_vars

\* output 3 was set to "unconfigured" in the current wizard: the output list
\* is shown, nothing was requested and the pin list still has the pin
C38_Witness ==
    /\ wizard.revision = "iotix"
    /\ wizard.pc = "form"
    /\ wizard.step = "configure_outputs"
    /\ wizard.pin_to_configure = 3
    /\ "type" \in DOMAIN wizard.user_input
    /\ wizard.user_input["type"] = "unconfigured"
    /\ wizard.requests = <<>>
    /\ wizard.reloads = 0
    /\ \E j \in 1..Len(wizard.all_pins) : wizard.all_pins[j]["pin"] = 3

\* input 2 was set to "unconfigured" in the older wizard
C38_WitnessOlder ==
    /\ wizard.revision = "iotix_adam"
    /\ wizard.pc = "form"
    /\ wizard.step = "configure_inputs"
    /\ wizard.pin_to_configure = 2
    /\ "type" \in DOMAIN wizard.user_input
    /\ wizard.user_input["type"] = "unconfigured"
    /\ wizard.requests = <<>>
    /\ wizard.reloads = 0
    /\ \E j \in 1..Len(wizard.all_pins) : wizard.all_pins[j]["pin"] = 2

----------------------------------------------------------------------------
(* C39: the progress flag of the firmware install *)

Installing == cmd.op = "async_install"

InstallReturned == Installing /\ cmd.pc = "done"

UploadReturned200 ==
    /\ Len(cmd.answers) = 2
    /\ cmd.answers[2].kind = "http"
    /\ cmd.answers[2].status = 200

\* C39: whenever async_install has returned, in_progress is False, whether
\* the download was not 200, the download or the upload raised, or the upload
\* was or was not 200; a coordinator refresh is requested by it only after
\* the upload returned HTTP 200; without a release URL nothing is downloaded
\* or uploaded and the flag is never set.
C39_InstallProgressFlag ==
    [][/\ InstallReturned' => ~cmd'.in_progress
       /\ (Installing' /\ cmd'.release_url = "") =>
              /\ cmd'.requests = <<>>
              /\ cmd'.starts = 0
              /\ cmd'.refreshes = 0
              /\ InstallReturned'
       /\ (Installing' /\ cmd'.refreshes > 0) => UploadReturned200'
       /\ (Installing /\ cmd' # cmd /\ refresh_requested' /\ ~refresh_requested) =>
              UploadReturned200
       /\ (Installing' /\ cmd'.in_progress) => cmd'.pc \in {"download", "upload"}]_vars

\* the upload raised: the install has returned with the flag cleared, having
\* set it once, and no refresh was requested
C39_Witness ==
    /\ InstallReturned
    /\ cmd.starts = 1
    /\ Len(cmd.answers) = 2
    /\ cmd.answers[2].kind # "http"
    /\ ~cmd.in_progress
    /\ cmd.refreshes = 0

\* the upload returned 200 and the refresh was requested
C39_WitnessRefreshed ==
    /\ InstallReturned
    /\ UploadReturned200
    /\ cmd.refreshes = 1
    /\ refresh_requested
    /\ ~cmd.in_progress

====
